---- MODULE Spec2Model ----
(***************************************************************************)
(* Job collection core of Job_collection.py: the CSV record store          *)
(* (JobStore), the result-page collection (LinkedInBrowser) and the        *)
(* orchestrator (JobCollector), as a state machine.                        *)
(*                                                                         *)
(* A CSV file is a sequence of lines, a line a sequence of cell texts.     *)
(* pandas.read_csv takes the first line as the column names, turns the     *)
(* empty cell (and the NA texts) into NaN and infers a type per column;    *)
(* DataFrame.to_csv writes NaN as the empty cell.                          *)
(***************************************************************************)
EXTENDS Integers, Sequences, FiniteSets, TLC

\* ------------------------------------------------------------------ bounds
MaxRuns == 2        \* processes started one after another on the same file
MaxPageLen == 2     \* link elements on one rendered result page
StepSeconds == 2400 \* seconds one page iteration, and one appended listing, take

\* ------------------------------------------------------------- value sets
Sentinel == "cannot fetch"
NaN == "<NaN>"                         \* pandas' missing value (float nan)

IDs == {"101", "102"}                  \* data-job-id values the site shows
ExtraIDs == {"103", "104"}             \* further listings of a four-listing page
IntTexts == IDs \cup ExtraIDs          \* the cell texts read_csv parses as integers
NaTexts == {"", "NA", "N/A", "NULL", "NaN", "n/a", "nan", "null", "#N/A", "<NA>"}

AboutUrl == "https://www.linkedin.com/company/acme/about/"
SizeText == "51-200 employees"

\* ------------------------------------------------------ sequence helpers
Range(s) == {s[i] : i \in 1..Len(s)}

IndexOf(s, x) == CHOOSE i \in 1..Len(s) : s[i] = x /\ \A k \in 1..(i - 1) : s[k] # x

SeqsUpTo(S, n) == UNION {[1..k -> S] : k \in 0..n}

RECURSIVE Perms(_)
Perms(S) ==
    IF S = {} THEN {<<>>}
    ELSE UNION {{<<x>> \o p : p \in Perms(S \ {x})} : x \in S}

\* ------------------------------------------------------------ JobStore
Header ==
    << "run_at", "posted_at", "timestamp", "jobID", "title", "company",
       "location", "workplace_type", "seniority", "employment_type",
       "easy_apply", "job_description", "job_url", "search_position",
       "search_location", "company_about_url", "company_size",
       "associated_members" >>

\* the positional names _load_saved_jobIDs gives a file without a jobID column
LegacyNames == << "timestamp", "jobID", "job", "company", "attempted", "result" >>

NoFile == [exists |-> FALSE, lines |-> <<>>]

\* the width read_csv settles on: that of the header line, or of the first data
\* line when that one is longer
Width(lines) ==
    IF Len(lines) >= 2 /\ Len(lines[2]) > Len(lines[1]) THEN Len(lines[2]) ELSE Len(lines[1])

\* pd.read_csv raises: no columns to parse, or a later line with more fields
\* than that width ("Expected n fields in line k, saw m")
ReadFails(f) ==
    \/ Len(f.lines) = 0
    \/ \E i \in 3..Len(f.lines) : Len(f.lines[i]) > Width(f.lines)

RawCell(line, j) ==
    IF j <= Len(line) /\ line[j] \notin NaTexts THEN line[j] ELSE NaN

\* the leading fields of every line that read_csv takes as the index when the
\* first data line has more fields than there are column names
LeadingCols(names, data) ==
    IF data # <<>> /\ Len(data[1]) > Len(names) THEN Len(data[1]) - Len(names) ELSE 0

\* a column of integer texts with a missing cell becomes float64
FloatCol(data, j) ==
    /\ \E i \in 1..Len(data) : RawCell(data[i], j) = NaN
    /\ \E i \in 1..Len(data) : RawCell(data[i], j) # NaN
    /\ \A i \in 1..Len(data) : RawCell(data[i], j) \in IntTexts \cup {NaN}

ParsedCell(data, i, j) ==
    IF FloatCol(data, j) /\ RawCell(data[i], j) # NaN
    THEN RawCell(data[i], j) \o ".0"
    ELSE RawCell(data[i], j)

\* the DataFrame of lines `data` under the column names `names`
Frame(names, data) ==
    [columns |-> names,
     rows |-> [i \in 1..Len(data) |->
                 [j \in 1..Len(names) |->
                     ParsedCell(data, i, j + LeadingCols(names, data))]]]

ReadCsv(f) == Frame(f.lines[1], SubSeq(f.lines, 2, Len(f.lines)))

ReadCsvPositional(f) == Frame(LegacyNames, f.lines)

Column(df, c) ==
    [i \in 1..Len(df.rows) |-> df.rows[i][IndexOf(df.columns, c)]]

\* df[c] = "cannot fetch" for the missing columns, then reindex(columns=wanted)
UpgradeFrame(df, missing) ==
    [columns |-> Header,
     rows |-> [i \in 1..Len(df.rows) |->
                 [j \in 1..Len(Header) |->
                     IF Header[j] \in missing THEN Sentinel
                     ELSE df.rows[i][IndexOf(df.columns, Header[j])]]]]

ToCsv(df) ==
    [exists |-> TRUE,
     lines |-> <<df.columns>> \o
               [i \in 1..Len(df.rows) |->
                   [j \in 1..Len(df.columns) |->
                       IF df.rows[i][j] = NaN THEN "" ELSE df.rows[i][j]]]]

MissingColumns(df) == {c \in Range(Header) : c \notin Range(df.columns)}

UpgradeOnlyFirstMissing(f) ==
    IF (~f.exists) \/ Len(f.lines) = 0 THEN [exists |-> TRUE, lines |-> <<Header>>]
    ELSE IF ReadFails(f) THEN f
    ELSE LET df == ReadCsv(f)
             missing == MissingColumns(df)
             first == CHOOSE c \in missing :
                         \A d \in missing : IndexOf(Header, c) <= IndexOf(Header, d)
         IN IF missing = {} THEN f
            ELSE ToCsv([columns |-> df.columns \o <<first>>,
                        rows |-> [i \in 1..Len(df.rows) |-> df.rows[i] \o <<Sentinel>>]])

EnsureHeaderOrUpgrade(f) ==
    IF (~f.exists) \/ Len(f.lines) = 0 THEN [exists |-> TRUE, lines |-> <<Header>>]
    ELSE IF ReadFails(f) THEN f
    ELSE LET df == ReadCsv(f)
             missing == MissingColumns(df)
         IN IF missing = {} THEN f ELSE ToCsv(UpgradeFrame(df, missing))

LoadNothing(f) == {}

LoadSavedJobIDs(f) ==
    IF ~f.exists THEN {}
    ELSE IF ReadFails(f) THEN {}
    ELSE LET df == ReadCsv(f)
             use == IF "jobID" \in Range(df.columns) THEN df ELSE ReadCsvPositional(f)
         IN Range(Column(use, "jobID")) \ {NaN}

LoadCheckedCompanies(f) ==
    IF ~f.exists THEN {}
    ELSE IF ReadFails(f) THEN {}
    ELSE LET df == ReadCsv(f) IN
         IF ~({"company", "company_size", "associated_members"} \subseteq Range(df.columns))
         THEN {}
         ELSE {Column(df, "company")[i] : i \in
                  {k \in 1..Len(df.rows) :
                      \/ Column(df, "company_size")[k] # Sentinel
                      \/ Column(df, "associated_members")[k] # Sentinel}}

Has(saved, job_id) == job_id \in saved

CompanyAlreadyChecked(checked, company_name) == company_name \in checked

BoolText(b) == IF b THEN "True" ELSE "False"

RowOf(rec) ==
    << rec.run_at, rec.posted_at, rec.timestamp, rec.jobID, rec.title,
       rec.company, rec.location, rec.workplace_type, rec.seniority,
       rec.employment_type, BoolText(rec.easy_apply), rec.job_description,
       rec.job_url, rec.search_position, rec.search_location,
       rec.company_about_url, rec.company_size, rec.associated_members >>

TruncateThenWrite(f, row) == [exists |-> TRUE, lines |-> <<f.lines[1], row>>]

\* open(filename, "a") and writerow
AppendRow(f, row) == [exists |-> TRUE, lines |-> Append(f.lines, row)]

ForgetSavedJobID(saved, rec) == saved

AddSavedJobID(saved, rec) == saved \cup {rec.jobID}

AddCheckedCompany(checked, rec) ==
    IF rec.company_size # Sentinel \/ rec.associated_members # Sentinel
    THEN checked \cup {rec.company}
    ELSE checked

\* ------------------------------------------------- JobCollector.__init__
MAX_SEARCH_TIME == 60 * 60 * 2

Max(a, b) == IF a >= b THEN a ELSE b

\* int(x or d): a missing or zero argument takes the default
IntOr(x, d) == IF x = 0 THEN d ELSE x

DatePostedDays(c) == IntOr(c.date_posted_days, 7)

\* a variant without the floor of max(1, ...)
StopOldLimitNoFloor(c) == IntOr(c.stop_old_posted_consecutive_limit, 10)

StopOldLimit(c) == Max(1, IntOr(c.stop_old_posted_consecutive_limit, 10))

StopOldDaysThreshold(c) ==
    IF c.stop_old_posted_days_threshold > 0
    THEN c.stop_old_posted_days_threshold
    ELSE DatePostedDays(c)

StopEmptyLimit(c) == Max(1, IntOr(c.stop_empty_pages_consecutive_limit, 3))

\* ---------------------------------------------------------- the site
Positions == <<"data engineer">>
Locations == <<"Berlin", "Paris">>

Combos == {<<Positions[i], Locations[j]>> : i \in 1..Len(Positions), j \in 1..Len(Locations)}

\* a rendered result card: its text and its data-job-id attribute
Links ==
    {[text |-> "Data Engineer", job_id |-> "101"],
     [text |-> "Data Engineer", job_id |-> "102"],
     [text |-> "Data Engineer Applied", job_id |-> "102"],
     [text |-> "", job_id |-> "search"]}

\* "Applied" in link.text, for the card texts of Links
HasApplied(text) == text = "Data Engineer Applied"

\* word.lower() in title.lower(), for the titles and words of the model
Titles == {"Data Engineer", "Senior Engineer"}
WordInTitle(word, title) == <<word, title>> \in {<<"senior", "Senior Engineer">>}

\* posting times as the fallback client formats them; ages are whole days
\* before the moment of the check
OldDate == "2026-09-24 09:00:00"
EdgeDate == "2026-10-04 09:00:00"
FreshDate == "2026-10-24 09:00:00"
BadDate == "24/09/2026"
AgeDays == (OldDate :> 40) @@ (EdgeDate :> 30) @@ (FreshDate :> 10)
None == -1

RunAt == "2026-11-03 09:00:00"


\* ------------------------------------------------------------- state
VARIABLES
    file,                \* the CSV file on disk
    savedJobIDs,         \* JobStore.savedJobIDs
    checked_companies,   \* JobStore.checked_companies
    cfg,                 \* the arguments of JobCollector.__init__
    run,                 \* number of the running process
    pc,                  \* where the process stands
    combos,              \* the shuffled combinations not yet started
    combo,               \* the combination being walked
    jobs_per_page,       \* the pagination offset
    elapsed,             \* time.time() - start_time
    empty_page_streak,
    jobIDs,              \* the identifiers collected on the current page
    idx,                 \* enumerate() index into jobIDs
    old_job_streak,
    raised,              \* the exception raised in the last step, if any
    stop,                \* why the last combination walk ended
    walked,              \* the combinations begun in this run
    empties,             \* trailing pages of this combination with no new identifier
    atOpen,              \* the file as the running process found it
    known,               \* links of the page just collected that were stored or repeated
    rewrites,            \* how often an open created or rewrote the file
    call,                \* the function called on its own, with its arguments
    ret,                 \* what that call returned
    site,                \* what the listings of the site yield when extracted
    in_rows,             \* scoring batch: the rows of the input file
    out_file,            \* scoring batch: the data rows of the output file
    processed,           \* scoring batch: main's set of identifiers done
    to_process,          \* scoring batch: the rows main submits
    futures,             \* scoring batch: one future for each row submitted
    workers,             \* scoring batch: what each thread of the pool is doing
    thread_local,        \* scoring batch: _thread_local.client in each thread
    clients,             \* scoring batch: the QwenClient objects made, and their users
    writing,             \* scoring batch: the calls of writerow under way
    written              \* scoring batch: which future's row each write of this run wrote

vars ==
    << file, savedJobIDs, checked_companies, cfg, run, pc, combos, combo,
       jobs_per_page, elapsed, empty_page_streak, jobIDs, idx, old_job_streak,
       raised, stop, walked, empties, atOpen, known, rewrites, call, ret, site,
       in_rows, out_file, processed, to_process, futures, workers, thread_local,
       clients, writing, written >>

storeVars == << file, savedJobIDs, checked_companies >>
pageVars == << jobIDs, idx, old_job_streak >>
walkVars == << combos, combo, jobs_per_page, elapsed, empty_page_streak, walked, empties >>
fnVars == << call, ret >>
batchVars ==
    << in_rows, out_file, processed, to_process, futures, workers, thread_local,
       clients, writing, written >>

\* no function has been called on its own
NoCall == call = "none" /\ ret = "none"

\* the scoring batch is not running
NoBatch ==
    /\ in_rows = <<>> /\ out_file = <<>> /\ processed = {} /\ to_process = <<>>
    /\ futures = <<>> /\ workers = <<>> /\ thread_local = <<>> /\ clients = <<>>
    /\ writing = {} /\ written = <<>>

\* ------------------------------------------------ _normalize_company_url
\* A text is a sequence of pieces; the pieces are cut where the pattern
\* https?://www\.linkedin\.com/company/[^/?#]+ can begin or end.
Schemes == {"https://", "http://", "HTTPS://"}
Hosts == {"www.linkedin.com", "WWW.LinkedIn.com", "de.linkedin.com", "example.com"}
Slugs == {"acme", "acme-corp"}
Space == " "

\* re.IGNORECASE, on the pieces of the model
Lower(piece) ==
    IF piece = "HTTPS://" THEN "https://"
    ELSE IF piece = "WWW.LinkedIn.com" THEN "www.linkedin.com"
    ELSE piece

\* the pieces that begin with one of the characters / ? #
SlugStops == {"/", "?", "#", "/company/", "/school/"}

RECURSIVE Text(_)
Text(u) == IF u = <<>> THEN "" ELSE Head(u) \o Text(Tail(u))

RECURSIVE LStrip(_)
LStrip(u) == IF u # <<>> /\ Head(u) = Space THEN LStrip(Tail(u)) ELSE u

RECURSIVE RStrip(_)
RStrip(u) ==
    IF u # <<>> /\ u[Len(u)] = Space THEN RStrip(SubSeq(u, 1, Len(u) - 1)) ELSE u

\* str.strip()
Strip(u) == RStrip(LStrip(u))

\* the pattern matches at piece i: scheme, host, /company/ and one slug
\* character at least
MatchesAt(u, i) ==
    /\ i + 3 <= Len(u)
    /\ Lower(u[i]) \in {"https://", "http://"}
    /\ Lower(u[i + 1]) = "www.linkedin.com"
    /\ Lower(u[i + 2]) = "/company/"
    /\ u[i + 3] \notin SlugStops

\* a variant whose slug runs on through the sub-pages, to the next ? or #
RECURSIVE SlugEndThroughPath(_, _)
SlugEndThroughPath(u, j) ==
    IF j < Len(u) /\ u[j + 1] \notin {"?", "#"} THEN SlugEndThroughPath(u, j + 1) ELSE j

\* [^/?#]+ is greedy: the slug runs to the next / ? # or to the end
RECURSIVE SlugEnd(_, _)
SlugEnd(u, j) ==
    IF j < Len(u) /\ u[j + 1] \notin SlugStops THEN SlugEnd(u, j + 1) ELSE j

\* a variant that accepts the pattern only at the start of the text (re.match)
NormalizeCompanyUrlAnchored(url) ==
    LET u == Strip(url) IN
    IF u = <<>> THEN ""
    ELSE IF ~MatchesAt(u, 1) THEN ""
    ELSE Text(SubSeq(u, 1, SlugEnd(u, 4))) \o "/"

\* str.rstrip("/")
RECURSIVE RStripSlash(_)
RStripSlash(u) ==
    IF u # <<>> /\ u[Len(u)] = "/" THEN RStripSlash(SubSeq(u, 1, Len(u) - 1)) ELSE u

\* the pieces of the result: re.search takes the leftmost match, wherever
\* it begins; m.group(1).rstrip("/") + "/"
CompanyUrlPieces(url) ==
    LET u == Strip(url) IN
    IF u = <<>> THEN <<>>
    ELSE IF ~\E i \in 1..Len(u) : MatchesAt(u, i) THEN <<>>
    ELSE LET i == CHOOSE k \in 1..Len(u) :
                      MatchesAt(u, k) /\ \A m \in 1..(k - 1) : ~MatchesAt(u, m)
         IN RStripSlash(SubSeq(u, i, SlugEnd(u, i + 3))) \o << "/" >>

NormalizeCompanyUrl(url) == Text(CompanyUrlPieces(url))

\* ---------------------------------------- LinkedInBrowser, result page
RECURSIVE Dedupe(_)
Dedupe(s) ==
    IF s = <<>> THEN <<>>
    ELSE LET rest == Dedupe(SubSeq(s, 1, Len(s) - 1))
             x == s[Len(s)]
         IN IF x \in Range(rest) THEN rest ELSE Append(rest, x)

\* a variant that does not look into the store
KeepLinkIgnoringStore(link, blacklist, saved_ids) ==
    /\ ~HasApplied(link.text)
    /\ link.text \notin Range(blacklist)
    /\ link.job_id # ""
    /\ link.job_id # "search"

KeepLink(link, blacklist, saved_ids) ==
    /\ ~HasApplied(link.text)
    /\ link.text \notin Range(blacklist)
    /\ link.job_id # ""
    /\ link.job_id # "search"
    /\ link.job_id \notin saved_ids

CollectJobIdsFromResult(links, blacklist, saved_ids) ==
    LET Keep(l) == KeepLink(l, blacklist, saved_ids)
        kept == SelectSeq(links, Keep)
    IN Dedupe([i \in 1..Len(kept) |-> kept[i].job_id])

\* the links whose identifier is in the store or was met earlier on the page
KnownLinks(links, saved_ids) ==
    Cardinality({i \in 1..Len(links) :
                    /\ links[i].job_id \in IntTexts
                    /\ \/ links[i].job_id \in saved_ids
                       \/ \E k \in 1..(i - 1) : links[k].job_id = links[i].job_id})

\* ------------------------------------------------ the two stop policies
EmptyPageStreakNoReset(streak, ids) == IF ids = <<>> THEN streak + 1 ELSE streak

EmptyPageStreakNext(streak, ids) == IF ids = <<>> THEN streak + 1 ELSE 0

ParsePostedAt(posted_at) ==
    IF posted_at \in DOMAIN AgeDays THEN AgeDays[posted_at] ELSE None

IsOlderThanThreshold(posted_at, c) ==
    /\ ParsePostedAt(posted_at) # None
    /\ ParsePostedAt(posted_at) > StopOldDaysThreshold(c)

OldJobStreakKeepsOnUnknown(streak, posted_at, c) ==
    IF ParsePostedAt(posted_at) = None THEN streak
    ELSE IF IsOlderThanThreshold(posted_at, c) THEN streak + 1 ELSE 0

OldJobStreakNext(streak, posted_at, c) ==
    IF posted_at # "" /\ IsOlderThanThreshold(posted_at, c) THEN streak + 1 ELSE 0

\* ------------------------------------------------ one listing's extraction
NoAbout == <<Sentinel, Sentinel, Sentinel>>

MembersText == "1,234 associated members"

\* the href extract_company_url_from_job_detail finds on the detail page of a
\* listing of `company`; <<>> when the page shows no company link
Companies == {"Acme", "Acme Corp"}
CompanySlug(company) == IF company = "Acme" THEN "acme" ELSE "acme-corp"
CompanyLink(company) ==
    <<"https://", "www.linkedin.com", "/company/", CompanySlug(company), "/", "life">>

\* what the stages of the enrichment meet: the raw link, the loading of the
\* about page ("ok", "blocked" by an authwall, or "fails"), and the size and
\* member-count texts the about page holds ("" when it holds none)
AboutOutcomes(company) ==
    [raw : {<<>>, CompanyLink(company)},
     page : {"ok", "blocked", "fails"},
     size : {"", SizeText},
     members : {"", MembersText}]

\* a variant that hands the extracted texts on as they are
FetchRawTexts(o) ==
    LET company_root == NormalizeCompanyUrl(o.raw) IN
    IF company_root = "" THEN <<Sentinel, Sentinel, Sentinel>>
    ELSE <<company_root \o "about/", o.size, o.members>>

\* a variant that gives up the whole result when any stage finds nothing
FetchAllOrNothing(o) ==
    LET company_root == NormalizeCompanyUrl(o.raw) IN
    IF company_root = "" \/ o.page # "ok" \/ o.size = "" \/ o.members = ""
    THEN <<Sentinel, Sentinel, Sentinel>>
    ELSE <<company_root \o "about/", o.size, o.members>>

\* fetch_company_about_fields_from_current_job; the root ends with one "/",
\* so rstrip("/") + "/about/" adds "about/" to it
FetchCompanyAboutFields(o) ==
    LET company_root == NormalizeCompanyUrl(o.raw) IN
    IF company_root = "" THEN <<Sentinel, Sentinel, Sentinel>>
    ELSE LET about_url == company_root \o "about/" IN
         IF o.page # "ok" THEN <<about_url, Sentinel, Sentinel>>
         ELSE <<about_url,
                IF o.size # "" THEN o.size ELSE Sentinel,
                IF o.members # "" THEN o.members ELSE Sentinel>>

\* the detail page shows no company link
NoLink == [raw |-> <<>>, page |-> "ok", size |-> "", members |-> ""]

\* what the detail page (company) and the fallback client (posted_at) yield
\* for one listing, and what the stages of its enrichment meet (about)
\* wall: which test of _is_authwall_or_checkpoint the detail page meets
Extractions ==
    {[company |-> "Acme", posted_at |-> OldDate, about |-> NoLink, wall |-> "none"],
     [company |-> "", posted_at |-> "",
      about |-> [raw |-> CompanyLink("Acme"), page |-> "ok", size |-> SizeText, members |-> ""],
      wall |-> "none"]}

\* the sign-in page shown in place of a detail page: its heading and the
\* parts of its window title around " | "
WallSignals == {"url", "title", "body"}
WallH1 == "Sign in"
WallTitleParts == << "LinkedIn Login, Sign in", "LinkedIn" >>

IsAuthwallOrCheckpoint(x) == x.wall \in WallSignals

\* open_job_view waits for the company link and drops the answer of the
\* wait, the wall included; parse_job_page_fields reads the page on display:
\* h1 is the heading of a listing's own page
ParseJobPageFields(x, h1) ==
    IF IsAuthwallOrCheckpoint(x)
    THEN [title |-> IF WallH1 # "" THEN WallH1 ELSE WallTitleParts[1],
          company |-> IF Len(WallTitleParts) >= 2 THEN WallTitleParts[2] ELSE ""]
    ELSE [title |-> h1, company |-> x.company]

OrSentinel(x) == IF x = "" THEN Sentinel ELSE x

\* a variant that compares the word and the title as they are written
TitleBlacklistedAsWritten(title, c) ==
    /\ c.blackListTitles # <<>>
    /\ title # ""
    /\ \E i \in 1..Len(c.blackListTitles) : c.blackListTitles[i] = title

TitleBlacklisted(title, c) ==
    /\ c.blackListTitles # <<>>
    /\ title # ""
    /\ \E i \in 1..Len(c.blackListTitles) : WordInTitle(c.blackListTitles[i], title)

JobRecord(jobID, title, company, posted_at, about, position, location) ==
    [run_at |-> RunAt, posted_at |-> posted_at, timestamp |-> RunAt,
     jobID |-> jobID, title |-> title, company |-> company, location |-> "",
     workplace_type |-> "", seniority |-> "", employment_type |-> "",
     easy_apply |-> FALSE, job_description |-> "",
     job_url |-> "https://www.linkedin.com/jobs/view/" \o jobID,
     search_position |-> position, search_location |-> location,
     company_about_url |-> OrSentinel(about[1]),
     company_size |-> OrSentinel(about[2]),
     associated_members |-> OrSentinel(about[3])]

\* ------------------------------------------------------------ actions
Idle ==
    /\ combos = <<>> /\ combo = <<>> /\ jobs_per_page = 0 /\ elapsed = 0
    /\ empty_page_streak = 0 /\ jobIDs = <<>> /\ idx = 0 /\ old_job_streak = 0
    /\ raised = "none" /\ stop = "none" /\ walked = {} /\ empties = 0 /\ known = 0

\* JobCollector.__init__: JobStore(filename)
Open ==
    /\ pc = "init"
    /\ file' = EnsureHeaderOrUpgrade(file)
    /\ savedJobIDs' = LoadSavedJobIDs(file')
    /\ checked_companies' = LoadCheckedCompanies(file')
    /\ atOpen' = file
    /\ pc' = "start"
    /\ UNCHANGED << batchVars, cfg, site, run, raised, stop >>
    /\ UNCHANGED walkVars /\ UNCHANGED pageVars
    /\ known' = 0
    /\ rewrites' = IF file' # file THEN rewrites + 1 ELSE rewrites
    /\ UNCHANGED fnVars

\* a variant that draws each combination anew (random.choices for shuffle)
StartDrawsWithRepeats ==
    /\ pc = "start"
    /\ combos' \in [1..Cardinality(Combos) -> Combos]
    /\ pc' = "combo"
    /\ UNCHANGED << batchVars, cfg, site, run, combo, jobs_per_page, elapsed, empty_page_streak,
                    raised, stop, walked, empties, atOpen >>
    /\ UNCHANGED storeVars /\ UNCHANGED pageVars
    /\ known' = 0
    /\ UNCHANGED rewrites /\ UNCHANGED fnVars

\* start(): the cross product, shuffled
Start ==
    /\ pc = "start"
    /\ combos' \in Perms(Combos)
    /\ pc' = "combo"
    /\ UNCHANGED << batchVars, cfg, site, run, combo, jobs_per_page, elapsed, empty_page_streak,
                    raised, stop, walked, empties, atOpen >>
    /\ UNCHANGED storeVars /\ UNCHANGED pageVars
    /\ known' = 0
    /\ UNCHANGED rewrites /\ UNCHANGED fnVars

\* a variant in which the empty-page streak outlives the combination
EnterComboKeepsStreak ==
    /\ pc = "combo"
    /\ combos # <<>>
    /\ combo' = Head(combos)
    /\ combos' = Tail(combos)
    /\ walked' = walked \cup {Head(combos)}
    /\ jobs_per_page' = 0
    /\ elapsed' = 0
    /\ stop' = "none"
    /\ UNCHANGED << batchVars, cfg, site, run, atOpen, empty_page_streak, empties >>
    /\ UNCHANGED storeVars /\ UNCHANGED pageVars
    /\ known' = 0
    /\ UNCHANGED rewrites /\ UNCHANGED fnVars

EnterCombo ==
    /\ pc = "combo"
    /\ combos # <<>>
    /\ combo' = Head(combos)
    /\ combos' = Tail(combos)
    /\ walked' = walked \cup {Head(combos)}
    /\ jobs_per_page' = 0
    /\ elapsed' = 0
    /\ empty_page_streak' = 0
    /\ empties' = 0
    /\ stop' = "none"
    /\ UNCHANGED << batchVars, cfg, site, run, atOpen >>
    /\ UNCHANGED storeVars /\ UNCHANGED pageVars
    /\ known' = 0
    /\ UNCHANGED rewrites /\ UNCHANGED fnVars

\* _search_one_combo up to the loop: open_search_page(start=0) returns
BeginCombo ==
    /\ EnterCombo
    /\ raised' = "none"
    /\ pc' = "loop"

\* open_search_page(start=0) raises: nothing catches it before start() ends
BeginComboAbort ==
    /\ EnterCombo
    /\ raised' = "search0"
    /\ pc' = "aborted"

\* start(): the for loop over the combinations has ended
Finish ==
    /\ pc = "combo"
    /\ combos = <<>>
    /\ pc' = "done"
    /\ UNCHANGED << batchVars, cfg, site, run, raised, stop, atOpen >>
    /\ UNCHANGED storeVars /\ UNCHANGED pageVars /\ UNCHANGED walkVars
    /\ known' = 0
    /\ UNCHANGED rewrites /\ UNCHANGED fnVars

\* a variant in which the budget is also tested between two listings
TimeUpAnywhere ==
    /\ pc \in {"loop", "collect"}
    /\ ~(elapsed < MAX_SEARCH_TIME)
    /\ pc' = "combo"
    /\ stop' = "time"
    /\ raised' = "none"
    /\ UNCHANGED << batchVars, cfg, site, run, atOpen >>
    /\ UNCHANGED storeVars /\ UNCHANGED pageVars /\ UNCHANGED walkVars
    /\ known' = 0
    /\ UNCHANGED rewrites /\ UNCHANGED fnVars

\* the while condition fails
TimeUp ==
    /\ pc = "loop"
    /\ ~(elapsed < MAX_SEARCH_TIME)
    /\ pc' = "combo"
    /\ stop' = "time"
    /\ raised' = "none"
    /\ UNCHANGED << batchVars, cfg, site, run, atOpen >>
    /\ UNCHANGED storeVars /\ UNCHANGED pageVars /\ UNCHANGED walkVars
    /\ known' = 0
    /\ UNCHANGED rewrites /\ UNCHANGED fnVars

\* one iteration of the while loop down to the call of _collect_jobs
PageIter ==
    /\ pc = "loop"
    /\ elapsed < MAX_SEARCH_TIME
    /\ \E links \in SeqsUpTo(Links, MaxPageLen) :
         LET ids == CollectJobIdsFromResult(links, cfg.blacklist, savedJobIDs)
             streak == IF cfg.stop_empty_pages_enabled
                       THEN EmptyPageStreakNext(empty_page_streak, ids)
                       ELSE empty_page_streak
             halt == cfg.stop_empty_pages_enabled /\ streak >= StopEmptyLimit(cfg)
         IN /\ jobIDs' = ids
            /\ known' = KnownLinks(links, savedJobIDs)
            /\ empty_page_streak' = streak
            /\ empties' = IF ids = <<>> THEN empties + 1 ELSE 0
            /\ pc' = IF halt THEN "combo" ELSE IF ids # <<>> THEN "collect" ELSE "advance"
            /\ stop' = IF halt THEN "empty" ELSE stop
    /\ idx' = 0
    /\ old_job_streak' = 0
    /\ elapsed' = elapsed + StepSeconds
    /\ raised' = "none"
    /\ UNCHANGED << batchVars, cfg, site, run, combos, combo, jobs_per_page, walked, atOpen >>
    /\ UNCHANGED storeVars
    /\ UNCHANGED rewrites /\ UNCHANGED fnVars

\* load_page, the scroll or the collection raises: caught by the loop
PageIterRaises ==
    /\ pc = "loop"
    /\ elapsed < MAX_SEARCH_TIME
    /\ elapsed' = elapsed + StepSeconds
    /\ raised' = "page"
    /\ UNCHANGED << batchVars, cfg, site, run, pc, combos, combo, jobs_per_page, empty_page_streak,
                    stop, walked, empties, atOpen >>
    /\ UNCHANGED storeVars /\ UNCHANGED pageVars
    /\ known' = 0
    /\ UNCHANGED rewrites /\ UNCHANGED fnVars

\* the places of one turn where an exception reaches the handler of the turn
FailPoints == {"open_job_view", "parse_job_page_fields", "fetch_jd_and_posted_at", "store.add"}

\* a variant in which the handler of the turn clears the stale streak
CollectFailsClearsStreak ==
    /\ pc = "collect"
    /\ idx < Len(jobIDs)
    /\ ~Has(savedJobIDs, jobIDs[idx + 1])
    /\ \E at \in FailPoints : raised' = at
    /\ idx' = idx + 1
    /\ old_job_streak' = 0
    /\ UNCHANGED << batchVars, cfg, site, run, pc, jobIDs, stop, atOpen >>
    /\ UNCHANGED storeVars /\ UNCHANGED walkVars
    /\ known' = 0
    /\ UNCHANGED rewrites /\ UNCHANGED fnVars

\* a variant in which the exception ends the loop over the page
CollectFailsEndsPage ==
    /\ pc = "collect"
    /\ idx < Len(jobIDs)
    /\ ~Has(savedJobIDs, jobIDs[idx + 1])
    /\ \E at \in FailPoints : raised' = at
    /\ idx' = Len(jobIDs)
    /\ UNCHANGED << batchVars, cfg, site, run, pc, jobIDs, old_job_streak, stop, atOpen >>
    /\ UNCHANGED storeVars /\ UNCHANGED walkVars
    /\ known' = 0
    /\ UNCHANGED rewrites /\ UNCHANGED fnVars

\* a variant of add that updates the identifier index before it writes the
\* row, so that a failed write leaves the identifier in the index
CollectFailsIndexesFirst ==
    /\ pc = "collect"
    /\ idx < Len(jobIDs)
    /\ ~Has(savedJobIDs, jobIDs[idx + 1])
    /\ \E at \in FailPoints :
          /\ raised' = at
          /\ savedJobIDs' = IF at = "store.add"
                            THEN savedJobIDs \cup {jobIDs[idx + 1]} ELSE savedJobIDs
    /\ idx' = idx + 1
    /\ UNCHANGED << batchVars, cfg, site, run, pc, jobIDs, old_job_streak, stop, atOpen >>
    /\ UNCHANGED << file, checked_companies >> /\ UNCHANGED walkVars
    /\ known' = 0
    /\ UNCHANGED rewrites /\ UNCHANGED fnVars

\* the exception is caught at the end of the turn; the loop goes on
CollectFails ==
    /\ pc = "collect"
    /\ idx < Len(jobIDs)
    /\ ~Has(savedJobIDs, jobIDs[idx + 1])
    /\ \E at \in FailPoints : raised' = at
    /\ idx' = idx + 1
    /\ UNCHANGED << batchVars, cfg, site, run, pc, jobIDs, old_job_streak, stop, atOpen >>
    /\ UNCHANGED storeVars /\ UNCHANGED walkVars
    /\ known' = 0
    /\ UNCHANGED rewrites /\ UNCHANGED fnVars

\* the exception the enrichment block's own handler swallows, if any
EnrichRaises(c) == IF c.fetch_company_about_enabled THEN {"none", "company_about"} ELSE {"none"}

\* a turn that ends in one of the two continue statements: the identifier is
\* in the store already, or the extracted title holds a blacklisted word
CollectContinue ==
    /\ pc = "collect"
    /\ idx < Len(jobIDs)
    /\ IF Has(savedJobIDs, jobIDs[idx + 1])
       THEN raised' = "none"
       ELSE \E h1 \in Titles, x \in site :
               /\ TitleBlacklisted(ParseJobPageFields(x, h1).title, cfg)
               /\ raised' \in EnrichRaises(cfg)
    /\ idx' = idx + 1
    /\ UNCHANGED << batchVars, cfg, site, run, pc, jobIDs, old_job_streak, stop, atOpen >>
    /\ UNCHANGED storeVars /\ UNCHANGED walkVars
    /\ known' = 0
    /\ UNCHANGED rewrites /\ UNCHANGED fnVars

\* a variant in which the stale stop is noted and the page is finished
CollectAppendFinishesPage ==
    /\ pc = "collect"
    /\ idx < Len(jobIDs)
    /\ ~Has(savedJobIDs, jobIDs[idx + 1])
    /\ \E h1 \in Titles, x \in site :
         LET title == ParseJobPageFields(x, h1).title
             company == ParseJobPageFields(x, h1).company
             about == IF cfg.fetch_company_about_enabled
                      THEN FetchCompanyAboutFields(x.about) ELSE NoAbout
             rec == JobRecord(jobIDs[idx + 1], title, company, x.posted_at, about,
                              combo[1], combo[2])
             streak == IF cfg.stop_old_posted_enabled
                       THEN OldJobStreakNext(old_job_streak, x.posted_at, cfg)
                       ELSE old_job_streak
             halt == cfg.stop_old_posted_enabled /\ streak >= StopOldLimit(cfg)
         IN /\ ~TitleBlacklisted(title, cfg)
            /\ file' = AppendRow(file, RowOf(rec))
            /\ savedJobIDs' = AddSavedJobID(savedJobIDs, rec)
            /\ checked_companies' = AddCheckedCompany(checked_companies, rec)
            /\ old_job_streak' = streak
            /\ raised' \in EnrichRaises(cfg)
            /\ pc' = "collect"
            /\ stop' = IF halt THEN "stale" ELSE stop
    /\ idx' = idx + 1
    /\ elapsed' = elapsed + StepSeconds
    /\ UNCHANGED << batchVars, cfg, site, run, jobIDs, combos, combo, jobs_per_page,
                    empty_page_streak, walked, empties, atOpen >>
    /\ known' = 0
    /\ UNCHANGED rewrites /\ UNCHANGED fnVars

\* the record is built and added; then the stale-posting policy
CollectAppend ==
    /\ pc = "collect"
    /\ idx < Len(jobIDs)
    /\ ~Has(savedJobIDs, jobIDs[idx + 1])
    /\ \E h1 \in Titles, x \in site :
         LET title == ParseJobPageFields(x, h1).title
             company == ParseJobPageFields(x, h1).company
             about == IF cfg.fetch_company_about_enabled
                      THEN FetchCompanyAboutFields(x.about) ELSE NoAbout
             rec == JobRecord(jobIDs[idx + 1], title, company, x.posted_at, about,
                              combo[1], combo[2])
             streak == IF cfg.stop_old_posted_enabled
                       THEN OldJobStreakNext(old_job_streak, x.posted_at, cfg)
                       ELSE old_job_streak
             halt == cfg.stop_old_posted_enabled /\ streak >= StopOldLimit(cfg)
         IN /\ ~TitleBlacklisted(title, cfg)
            /\ file' = AppendRow(file, RowOf(rec))
            /\ savedJobIDs' = AddSavedJobID(savedJobIDs, rec)
            /\ checked_companies' = AddCheckedCompany(checked_companies, rec)
            /\ old_job_streak' = streak
            /\ raised' \in EnrichRaises(cfg)
            /\ pc' = IF halt THEN "combo" ELSE "collect"
            /\ stop' = IF halt THEN "stale" ELSE stop
    /\ idx' = idx + 1
    /\ elapsed' = elapsed + StepSeconds
    /\ UNCHANGED << batchVars, cfg, site, run, jobIDs, combos, combo, jobs_per_page,
                    empty_page_streak, walked, empties, atOpen >>
    /\ known' = 0
    /\ UNCHANGED rewrites /\ UNCHANGED fnVars

\* the for loop has ended: _collect_jobs returns False
CollectDone ==
    /\ pc = "collect"
    /\ idx = Len(jobIDs)
    /\ pc' = "advance"
    /\ raised' = "none"
    /\ UNCHANGED << batchVars, cfg, site, run, stop, atOpen >>
    /\ UNCHANGED storeVars /\ UNCHANGED walkVars /\ UNCHANGED pageVars
    /\ known' = 0
    /\ UNCHANGED rewrites /\ UNCHANGED fnVars

\* jobs_per_page += 25 and open_search_page
Advance ==
    /\ pc = "advance"
    /\ jobs_per_page' = jobs_per_page + 25
    /\ pc' = "loop"
    /\ raised' = "none"
    /\ UNCHANGED << batchVars, cfg, site, run, combos, combo, elapsed, empty_page_streak, stop,
                    walked, empties, atOpen >>
    /\ UNCHANGED storeVars /\ UNCHANGED pageVars
    /\ known' = 0
    /\ UNCHANGED rewrites /\ UNCHANGED fnVars

\* open_search_page raises after the offset was advanced: caught by the loop
AdvanceRaises ==
    /\ pc = "advance"
    /\ jobs_per_page' = jobs_per_page + 25
    /\ pc' = "loop"
    /\ raised' = "search"
    /\ UNCHANGED << batchVars, cfg, site, run, combos, combo, elapsed, empty_page_streak, stop,
                    walked, empties, atOpen >>
    /\ UNCHANGED storeVars /\ UNCHANGED pageVars
    /\ known' = 0
    /\ UNCHANGED rewrites /\ UNCHANGED fnVars

\* the process has ended (finished, aborted or interrupted); the next one is
\* started on the same file with the same configuration
Restart ==
    /\ pc # "init"
    /\ run < MaxRuns
    /\ run' = run + 1
    /\ pc' = "init"
    /\ savedJobIDs' = {}
    /\ checked_companies' = {}
    /\ combos' = <<>> /\ combo' = <<>> /\ jobs_per_page' = 0 /\ elapsed' = 0
    /\ empty_page_streak' = 0 /\ jobIDs' = <<>> /\ idx' = 0 /\ old_job_streak' = 0
    /\ raised' = "none" /\ stop' = "none" /\ walked' = {} /\ empties' = 0 /\ known' = 0
    /\ UNCHANGED << batchVars, file, cfg, site, atOpen, rewrites >>
    /\ UNCHANGED fnVars

\* ------------------------------------------------------ specifications
OldHeader == SubSeq(Header, 1, 15)

OldRow(jobID, company) ==
    SubSeq(RowOf(JobRecord(jobID, "Data Engineer", company, OldDate,
                           NoAbout, Positions[1], Locations[1])),
           1, 15)

\* files this program or its previous version (without the company columns) wrote
ProgramFiles ==
    {NoFile,
     [exists |-> TRUE, lines |-> <<OldHeader, OldRow("101", "Acme")>>]}

BaseConfig ==
    [blacklist |-> <<"Promoted">>,
     blackListTitles |-> <<"senior">>,
     date_posted_days |-> 0,
     stop_old_posted_enabled |-> TRUE,
     stop_old_posted_consecutive_limit |-> 2,
     stop_old_posted_days_threshold |-> 30,
     stop_empty_pages_enabled |-> TRUE,
     stop_empty_pages_consecutive_limit |-> 0,
     fetch_company_about_enabled |-> TRUE]

Configs ==
    {BaseConfig,
     [BaseConfig EXCEPT !.stop_empty_pages_consecutive_limit = 2],
     [BaseConfig EXCEPT !.stop_empty_pages_enabled = FALSE],
     [BaseConfig EXCEPT !.stop_old_posted_enabled = FALSE],
     [BaseConfig EXCEPT !.fetch_company_about_enabled = FALSE]}

Init ==
    /\ file \in ProgramFiles
    /\ cfg \in Configs
    /\ savedJobIDs = {}
    /\ checked_companies = {}
    /\ run = 1
    /\ pc = "init"
    /\ atOpen = NoFile
    /\ rewrites = 0
    /\ NoCall
    /\ site = Extractions
    /\ Idle
    /\ NoBatch

Next ==
    \/ Open
    \/ Start
    \/ BeginCombo
    \/ BeginComboAbort
    \/ Finish
    \/ TimeUp
    \/ PageIter
    \/ PageIterRaises
    \/ CollectFails
    \/ CollectContinue
    \/ CollectAppend
    \/ CollectDone
    \/ Advance
    \/ AdvanceRaises
    \/ Restart

Spec == Init /\ [][Next]_vars

\* ---- one run on a new file, the stale stop set to trigger at the first
\* stale record
WalkConfigs ==
    {[BaseConfig EXCEPT !.stop_old_posted_consecutive_limit = 1],
     [BaseConfig EXCEPT !.stop_old_posted_consecutive_limit = 1,
                        !.stop_empty_pages_consecutive_limit = 1]}

InitWalk ==
    /\ file = NoFile
    /\ cfg \in WalkConfigs
    /\ savedJobIDs = {}
    /\ checked_companies = {}
    /\ run = 1
    /\ pc = "init"
    /\ atOpen = NoFile
    /\ rewrites = 0
    /\ NoCall
    /\ site = Extractions
    /\ Idle
    /\ NoBatch

NextWalk ==
    \/ Open
    \/ Start
    \/ BeginCombo
    \/ BeginComboAbort
    \/ Finish
    \/ TimeUp
    \/ PageIter
    \/ PageIterRaises
    \/ CollectFails
    \/ CollectContinue
    \/ CollectAppend
    \/ CollectDone
    \/ Advance
    \/ AdvanceRaises

SpecWalk == InitWalk /\ [][NextWalk]_vars

\* ---- opening alone: files of every kind the store may be pointed at
CanonRow(jobID, x) ==
    RowOf(JobRecord(jobID, "Data Engineer", x.company, x.posted_at,
                    FetchCompanyAboutFields(x.about),
                    Positions[1], Locations[1]))

\* a line of the older file format read under LegacyNames; it has no header line
LegacyRow(jobID) == <<RunAt, jobID, "Data Engineer", "Acme", "True", "applied">>

DistinctSeqs(S, n) == {q \in SeqsUpTo(S, n) : \A i, j \in 1..Len(q) : i # j => q[i] # q[j]}

CanonFiles ==
    {[exists |-> TRUE, lines |-> <<Header>> \o [i \in 1..Len(q) |-> CanonRow(q[i], xs[i])]] :
        q \in DistinctSeqs(IDs, 2), xs \in [1..2 -> Extractions]}

OldFiles ==
    {[exists |-> TRUE, lines |-> <<OldHeader>> \o [i \in 1..Len(q) |-> OldRow(q[i], cs[i])]] :
        q \in DistinctSeqs(IDs, 2), cs \in [1..2 -> {"", "Acme"}]}

LegacyFiles ==
    {[exists |-> TRUE, lines |-> [i \in 1..Len(q) |-> LegacyRow(q[i])]] :
        q \in DistinctSeqs(IDs \cup {"103"}, 3) \ {<<>>}}

\* a later line with more fields than the lines before it: read_csv raises
BrokenFiles ==
    {[exists |-> TRUE, lines |-> <<OldHeader, OldRow(q[1], "Acme"), CanonRow(q[2], x)>>] :
        q \in {p \in DistinctSeqs(IDs, 2) : Len(p) = 2}, x \in Extractions}

OpenFiles ==
    {NoFile, [exists |-> TRUE, lines |-> <<>>]}
        \cup CanonFiles \cup OldFiles \cup LegacyFiles \cup BrokenFiles

InitOpen ==
    /\ file \in OpenFiles
    /\ cfg = BaseConfig
    /\ savedJobIDs = {}
    /\ checked_companies = {}
    /\ run = 1
    /\ pc = "init"
    /\ atOpen = NoFile
    /\ rewrites = 0
    /\ NoCall
    /\ site = Extractions
    /\ Idle
    /\ NoBatch

NextOpen ==
    \/ Open
    \/ Restart

SpecOpen == InitOpen /\ [][NextOpen]_vars

\* ---- the second run on the file of a first run whose result pages showed
\* the listings of IDs: the first run appended some of them and passed over
\* the others (blacklisted title, or an exception in their turn), which left
\* no trace in the file
SecondRunFiles ==
    {[exists |-> TRUE, lines |-> <<Header>> \o [i \in 1..Len(q) |-> CanonRow(q[i], x)]] :
        q \in DistinctSeqs(IDs, 2), x \in {e \in Extractions : e.company = "Acme"}}

InitSecond ==
    /\ file \in SecondRunFiles
    /\ cfg \in {BaseConfig, [BaseConfig EXCEPT !.stop_empty_pages_enabled = FALSE]}
    /\ savedJobIDs = {}
    /\ checked_companies = {}
    /\ run = 2
    /\ pc = "init"
    /\ atOpen = NoFile
    /\ rewrites = 1
    /\ NoCall
    /\ site = Extractions
    /\ Idle
    /\ NoBatch

SpecSecond == InitSecond /\ [][NextWalk]_vars

\* ---- runs on a file that read_csv cannot parse
InitBroken ==
    /\ file \in BrokenFiles
    /\ cfg = BaseConfig
    /\ savedJobIDs = {}
    /\ checked_companies = {}
    /\ run = 1
    /\ pc = "init"
    /\ atOpen = NoFile
    /\ rewrites = 0
    /\ NoCall
    /\ site = Extractions
    /\ Idle
    /\ NoBatch

\* the one process that follows the failed read
NextBroken ==
    \/ Open
    \/ Start
    \/ BeginCombo
    \/ Finish
    \/ TimeUp
    \/ PageIter
    \/ CollectFails
    \/ CollectContinue
    \/ CollectAppend
    \/ CollectDone
    \/ Advance

SpecBroken == InitBroken /\ [][NextBroken]_vars

\* ---- one call of _collect_jobs on a page of three new listings of one
\* company, whose enrichment meets one of the outcomes
EnrichExtractions ==
    UNION {{[company |-> c, posted_at |-> FreshDate, about |-> o, wall |-> "none"] :
               o \in AboutOutcomes(c)} : c \in Companies}

EnrichConfigs ==
    {[BaseConfig EXCEPT !.stop_old_posted_enabled = FALSE],
     [BaseConfig EXCEPT !.stop_old_posted_enabled = FALSE,
                        !.fetch_company_about_enabled = FALSE]}

InitEnrich ==
    /\ file = [exists |-> TRUE, lines |-> <<Header>>]
    /\ cfg \in EnrichConfigs
    /\ savedJobIDs = {}
    /\ checked_companies = {}
    /\ run = 1
    /\ pc = "collect"
    /\ atOpen = NoFile
    /\ rewrites = 1
    /\ NoCall
    /\ site \in {{x} : x \in EnrichExtractions}
    /\ combo = <<Positions[1], Locations[1]>>
    /\ combos = <<>>
    /\ walked = {combo}
    /\ jobs_per_page = 0
    /\ elapsed = StepSeconds
    /\ empty_page_streak = 0
    /\ empties = 0
    /\ jobIDs = <<"101", "102", "103">>
    /\ idx = 0
    /\ old_job_streak = 0
    /\ raised = "none"
    /\ stop = "none"
    /\ known = 0
    /\ NoBatch

NextEnrich ==
    \/ CollectFails
    \/ CollectContinue
    \/ CollectAppend
    \/ CollectDone

SpecEnrich == InitEnrich /\ [][NextEnrich]_vars

\* ---- one call of _collect_jobs on a page of three new listings, when the
\* site answers some detail pages with its sign-in page; the fallback client
\* has a session of its own and may still date the listing
BlockedExtractions ==
    {[company |-> "", posted_at |-> p, about |-> NoLink, wall |-> w] :
        w \in WallSignals, p \in {"", FreshDate}}
    \cup {[company |-> "Acme", posted_at |-> FreshDate, about |-> NoLink, wall |-> "none"]}

InitBlocked ==
    /\ file = [exists |-> TRUE, lines |-> <<Header>>]
    /\ cfg \in EnrichConfigs
    /\ savedJobIDs = {}
    /\ checked_companies = {}
    /\ run = 1
    /\ pc = "collect"
    /\ atOpen = NoFile
    /\ rewrites = 1
    /\ NoCall
    /\ site = BlockedExtractions
    /\ combo = <<Positions[1], Locations[1]>>
    /\ combos = <<>>
    /\ walked = {combo}
    /\ jobs_per_page = 0
    /\ elapsed = StepSeconds
    /\ empty_page_streak = 0
    /\ empties = 0
    /\ jobIDs = <<"101", "102", "103">>
    /\ idx = 0
    /\ old_job_streak = 0
    /\ raised = "none"
    /\ stop = "none"
    /\ known = 0
    /\ NoBatch

SpecBlocked == InitBlocked /\ [][NextEnrich]_vars

\* ---- LinkedInAPIClient: the description and the posting time of a listing
\* from the guest endpoint and the JSON endpoint
\* a text is a sequence of pieces; Chars gives the length of a piece
Para == "a paragraph of a hundred letters"
Line == "a line of fifty letters"
Tag == "<p>"
LongTag == "<div> with attributes, a hundred and fifty characters"
EscapedTag == "&lt;p&gt;"
EscapedAmp == "&amp;"
Amp == "&"
Newline == "\n"
Newlines == "\n\n\n"
TwoNewlines == "\n\n"

Chars(piece) ==
    CASE piece = Para -> 100
      [] piece = Line -> 50
      [] piece = Tag -> 3
      [] piece = LongTag -> 150
      [] piece = EscapedTag -> 9
      [] piece = EscapedAmp -> 5
      [] piece = Amp -> 1
      [] piece = Newline -> 1
      [] piece = Newlines -> 3
      [] piece = TwoNewlines -> 2
      [] piece = Space -> 1

RECURSIVE TextLen(_)
TextLen(t) == IF t = <<>> THEN 0 ELSE Chars(Head(t)) + TextLen(Tail(t))

IsBlank(piece) == piece \in {Space, Newline, Newlines, TwoNewlines}
IsTag(piece) == piece \in {Tag, LongTag}

RECURSIVE StripText(_)
StripText(t) ==
    IF t # <<>> /\ IsBlank(Head(t)) THEN StripText(Tail(t))
    ELSE IF t # <<>> /\ IsBlank(t[Len(t)]) THEN StripText(SubSeq(t, 1, Len(t) - 1))
    ELSE t

\* html.unescape
Unescape(t) ==
    [i \in 1..Len(t) |-> IF t[i] = EscapedTag THEN Tag
                         ELSE IF t[i] = EscapedAmp THEN Amp ELSE t[i]]

\* get_text("\n", strip=True): the texts between the tags, each stripped, the
\* empty ones dropped, joined by one newline
RECURSIVE JoinTexts(_, _)
JoinTexts(t, pending) ==
    IF t = <<>> THEN <<>>
    ELSE IF IsTag(Head(t)) \/ IsBlank(Head(t)) THEN JoinTexts(Tail(t), TRUE)
    ELSE (IF pending THEN << Newline >> ELSE <<>>) \o << Head(t) >>
         \o JoinTexts(Tail(t), FALSE)

GetText(t) ==
    LET first == CHOOSE i \in 1..(Len(t) + 1) :
                    /\ i = Len(t) + 1 \/ ~(IsTag(t[i]) \/ IsBlank(t[i]))
                    /\ \A j \in 1..(i - 1) : IsTag(t[j]) \/ IsBlank(t[j])
    IN JoinTexts(SubSeq(t, first, Len(t)), FALSE)

\* re.sub(r"\n{3,}", "\n\n", ...)
CollapseNewlines(t) == [i \in 1..Len(t) |-> IF t[i] = Newlines THEN TwoNewlines ELSE t[i]]

HasMarkup(t) == \E i \in 1..Len(t) : IsTag(t[i])

\* what the guest endpoint answers: the request raises, or a status and a
\* body, of which the model keeps the text of the description container
GuestBodies ==
    {<<>>, << Space >>, << Line >>, << Para >>, << Para, Tag, Line >>}

GuestResponses ==
    {[raises |-> TRUE, status |-> 0, body |-> <<>>]}
    \cup {[raises |-> FALSE, status |-> st, body |-> b] :
             st \in {200, 429}, b \in GuestBodies}

\* a variant that reads the body whatever the status
FetchGuestJdAnyStatus(r) ==
    IF r.raises THEN <<>>
    ELSE IF StripText(r.body) = <<>> THEN <<>>
    ELSE IF TextLen(StripText(GetText(r.body))) > 80 THEN StripText(GetText(r.body))
    ELSE <<>>

FetchGuestJd(r) ==
    IF r.raises THEN <<>>
    ELSE IF r.status # 200 \/ StripText(r.body) = <<>> THEN <<>>
    ELSE IF TextLen(StripText(GetText(r.body))) > 80 THEN StripText(GetText(r.body))
    ELSE <<>>

\* the strings of a JSON answer, by the path of each, in the order of the
\* object; Absent marks a path the answer does not have
Absent == << "absent" >>
Paths == << "description.text", "company.description", "benefits" >>
PathHasDescription(path) == path \in {"description.text", "company.description"}

\* listedAt and originalListedAt in the model: None when the key is absent,
\* 0 for a value that is not positive, else the number of a moment
FormatMsEpoch(ms) == IF ms = 1 THEN OldDate ELSE FreshDate

JsonData ==
    [listedAt : {None, 0, 2}, originalListedAt : {None, 1},
     strings : {<< a, b, c >> : a \in {Absent, << Para, Para, Para >>, << LongTag, Line >>},
                                b \in {Absent, << Tag, Para, Tag, Para >>,
                                       << EscapedTag, Para, EscapedAmp, Para >>},
                                c \in {Absent, << Para, Newlines, Para, Para, Para >>, << Para >>}}]

EmptyDict == [listedAt |-> None, originalListedAt |-> None,
              strings |-> << Absent, Absent, Absent >>]

\* the request raises, or a status and a body: empty, not JSON, or JSON
VoyagerResponses ==
    {[raises |-> TRUE, status |-> 0, body |-> "", data |-> EmptyDict]}
    \cup {[raises |-> FALSE, status |-> 429, body |-> "json", data |-> d] :
             d \in {x \in JsonData : x.listedAt = 2 /\ x.strings[1] # Absent}}
    \cup {[raises |-> FALSE, status |-> 200, body |-> b, data |-> EmptyDict] :
             b \in {"", "not json"}}
    \cup {[raises |-> FALSE, status |-> 200, body |-> "json", data |-> d] : d \in JsonData}

FetchVoyagerJson(r) ==
    IF r.raises THEN EmptyDict
    ELSE IF r.status # 200 \/ r.body = "" THEN EmptyDict
    ELSE IF r.body # "json" THEN EmptyDict
    ELSE r.data

\* _find_first_ms_by_keys_recursive for listedAt, then for originalListedAt
ExtractPostedAt(data) ==
    IF data.listedAt # None /\ data.listedAt > 0 THEN FormatMsEpoch(data.listedAt)
    ELSE IF data.originalListedAt # None /\ data.originalListedAt > 0
         THEN FormatMsEpoch(data.originalListedAt)
    ELSE ""

\* _find_long_strings: the paths whose stripped string has min_len characters
\* at least, the longest first, the order of the object among equals
IsHit(data, i) ==
    /\ data.strings[i] # Absent
    /\ TextLen(StripText(data.strings[i])) >= 200

Before(data, i, j) ==
    \/ TextLen(StripText(data.strings[i])) > TextLen(StripText(data.strings[j]))
    \/ /\ TextLen(StripText(data.strings[i])) = TextLen(StripText(data.strings[j]))
       /\ i < j

FirstOf(data, S) == CHOOSE i \in S : \A j \in S \ {i} : Before(data, i, j)

BestString(data) ==
    LET hits == {i \in 1..Len(Paths) : IsHit(data, i)}
        described == {i \in hits : PathHasDescription(Paths[i])}
    IN IF described # {} THEN StripText(data.strings[FirstOf(data, described)])
       ELSE IF hits # {} THEN StripText(data.strings[FirstOf(data, hits)])
       ELSE <<>>

JdVoyager(data) ==
    LET unescaped == Unescape(BestString(data))
        plain == IF HasMarkup(unescaped) THEN GetText(unescaped) ELSE unescaped
        best == StripText(CollapseNewlines(plain))
    IN IF BestString(data) # <<>> /\ TextLen(best) > 80 THEN best ELSE <<>>

\* a variant that takes the JSON text first
FetchJdPreferJson(guest, voyager) ==
    LET jd_guest == FetchGuestJd(guest)
        data == FetchVoyagerJson(voyager)
        jd_voyager == IF data # EmptyDict THEN JdVoyager(data) ELSE <<>>
    IN [jd |-> IF jd_voyager # <<>> THEN jd_voyager ELSE jd_guest,
        posted_at |-> IF data # EmptyDict THEN ExtractPostedAt(data) ELSE ""]

FetchJdAndPostedAt(guest, voyager) ==
    LET jd_guest == FetchGuestJd(guest)
        data == FetchVoyagerJson(voyager)
        jd_voyager == IF data # EmptyDict THEN JdVoyager(data) ELSE <<>>
    IN [jd |-> IF jd_guest # <<>> THEN jd_guest ELSE jd_voyager,
        posted_at |-> IF data # EmptyDict THEN ExtractPostedAt(data) ELSE ""]

\* ---- the functions called on their own, on the inputs of the model
\* a raw link: what stands before the address, the address, what follows it
LinkPrefixes == {<<>>, << Space >>, << "https://", "example.com", "/redirect?url=" >>}
LinkPaths == {"/company/", "/school/"}
LinkSlugs == {<<>>, << "acme", "-corp" >>} \cup {<< slug >> : slug \in Slugs}
LinkSuffixes ==
    {<<>>, << "/" >>, << "/", "life" >>, << "/", "life", "?", "x=1" >>,
     << "?", "x=1" >>, << "#", "top" >>, << Space >>}

UrlCalls ==
    [fn : {"_normalize_company_url"}, prefix : LinkPrefixes, scheme : Schemes,
     host : Hosts, path : LinkPaths, slug : LinkSlugs, suffix : LinkSuffixes]

Url(c) == c.prefix \o << c.scheme, c.host, c.path >> \o c.slug \o c.suffix

JdCalls ==
    [fn : {"fetch_jd_and_posted_at"}, guest : GuestResponses, voyager : VoyagerResponses]

\* wait_company_link_ready: times in tenths of a second; what each poll
\* meets on the page: a sign of the wall, a candidate with a company link
PollInterval == 3
WaitTimeouts == {0, 6, 10}
PollViews == [wall : BOOLEAN, link : BOOLEAN]

WaitCalls ==
    [fn : {"wait_company_link_ready"}, timeout : WaitTimeouts,
     views : [1..4 -> PollViews]]

InitFn ==
    /\ file = [exists |-> TRUE, lines |-> <<Header>>]
    /\ cfg = BaseConfig
    /\ savedJobIDs = {}
    /\ checked_companies = {}
    /\ run = 1
    /\ pc = "call"
    /\ atOpen = NoFile
    /\ rewrites = 1
    /\ \/ call \in UrlCalls
       \/ call \in JdCalls
       \/ call \in WaitCalls
    /\ ret = "none"
    /\ site = {}
    /\ Idle
    /\ NoBatch

ApplyNormalizeCompanyUrl ==
    /\ pc = "call"
    /\ call.fn = "_normalize_company_url"
    /\ ret' = NormalizeCompanyUrl(Url(call))
    /\ pc' = "returned"
    /\ UNCHANGED << batchVars, cfg, site, run, atOpen, known, rewrites, raised, stop, call >>
    /\ UNCHANGED storeVars /\ UNCHANGED walkVars /\ UNCHANGED pageVars

ApplyFetchJdAndPostedAt ==
    /\ pc = "call"
    /\ call.fn = "fetch_jd_and_posted_at"
    /\ ret' = FetchJdAndPostedAt(call.guest, call.voyager)
    /\ pc' = "returned"
    /\ UNCHANGED << batchVars, cfg, site, run, atOpen, known, rewrites, raised, stop, call >>
    /\ UNCHANGED storeVars /\ UNCHANGED walkVars /\ UNCHANGED pageVars

\* a variant that looks for the link before it looks for the wall
PollLinkFirst ==
    /\ pc = "call"
    /\ call.fn = "wait_company_link_ready"
    /\ elapsed < call.timeout
    /\ idx' = idx + 1
    /\ LET view == call.views[idx + 1] IN
         IF view.link THEN ret' = TRUE /\ pc' = "returned" /\ elapsed' = elapsed
         ELSE IF view.wall THEN ret' = FALSE /\ pc' = "returned" /\ elapsed' = elapsed
         ELSE /\ ret' = ret /\ pc' = "call"
              /\ elapsed' = elapsed + PollInterval
    /\ UNCHANGED << batchVars, cfg, site, run, atOpen, known, rewrites, raised, stop, call,
                    jobIDs, old_job_streak, combos, combo, jobs_per_page,
                    empty_page_streak, walked, empties >>
    /\ UNCHANGED storeVars

\* one turn of the while loop: the wall test, the candidates, the sleep
PollCompanyLink ==
    /\ pc = "call"
    /\ call.fn = "wait_company_link_ready"
    /\ elapsed < call.timeout
    /\ idx' = idx + 1
    /\ LET view == call.views[idx + 1] IN
         IF view.wall THEN ret' = FALSE /\ pc' = "returned" /\ elapsed' = elapsed
         ELSE IF view.link THEN ret' = TRUE /\ pc' = "returned" /\ elapsed' = elapsed
         ELSE /\ ret' = ret /\ pc' = "call"
              /\ elapsed' = elapsed + PollInterval
    /\ UNCHANGED << batchVars, cfg, site, run, atOpen, known, rewrites, raised, stop, call,
                    jobIDs, old_job_streak, combos, combo, jobs_per_page,
                    empty_page_streak, walked, empties >>
    /\ UNCHANGED storeVars

\* the while condition fails: return False
PollDeadline ==
    /\ pc = "call"
    /\ call.fn = "wait_company_link_ready"
    /\ ~(elapsed < call.timeout)
    /\ ret' = FALSE
    /\ pc' = "returned"
    /\ UNCHANGED << batchVars, cfg, site, run, atOpen, known, rewrites, raised, stop, call >>
    /\ UNCHANGED storeVars /\ UNCHANGED walkVars /\ UNCHANGED pageVars

NextFn ==
    \/ ApplyNormalizeCompanyUrl
    \/ ApplyFetchJdAndPostedAt
    \/ PollCompanyLink
    \/ PollDeadline

SpecFn == InitFn /\ [][NextFn]_vars

\* ---- the client's session over the pages of one combination
\* LinkedInAPIClient.__init__: self.cookie_refresh_every = 20
cookie_refresh_every == 20

\* the refreshes a behaviour may hold
MaxRefreshes == 5

\* the listings one session may serve in a behaviour
MaxServed == 45

\* the numbers of new identifiers a results page may give
PageLens == {1, 20, 25}

\* call holds the page in hand (its length) and the client: how many times
\* _refresh_session has run, and how many calls of fetch_jd_and_posted_at
\* the session of the last refresh has served
InitRefresh ==
    /\ file = [exists |-> TRUE, lines |-> <<Header>>]
    /\ cfg = BaseConfig
    /\ savedJobIDs = {}
    /\ checked_companies = {}
    /\ run = 1
    /\ pc = "loop"
    /\ atOpen = NoFile
    /\ rewrites = 1
    /\ call = [fn |-> "_collect_jobs", len |-> 0, refreshes |-> 1, served |-> 0]
    /\ ret = "none"
    /\ site = {}
    /\ Idle
    /\ NoBatch

\* _search_one_combo hands the identifiers of the next page to _collect_jobs
CollectPage ==
    /\ pc = "loop"
    /\ call.fn = "_collect_jobs"
    /\ \E n \in PageLens : call' = [call EXCEPT !.len = n]
    /\ idx' = 0
    /\ pc' = "collect"
    /\ UNCHANGED << batchVars, cfg, site, run, atOpen, known, rewrites, raised, stop, ret,
                    jobIDs, old_job_streak >>
    /\ UNCHANGED storeVars /\ UNCHANGED walkVars

\* fetch_jd_and_posted_at(jobID, idx): idx is the index of enumerate(jobIDs)
FetchRefreshes(i) == i % cookie_refresh_every = 0

\* a turn of the for loop that reaches fetch_jd_and_posted_at
TurnFetches ==
    /\ pc = "collect"
    /\ call.fn = "_collect_jobs"
    /\ idx < call.len
    /\ FetchRefreshes(idx) => call.refreshes < MaxRefreshes
    /\ ~FetchRefreshes(idx) => call.served < MaxServed
    /\ call' = [call EXCEPT
                  !.refreshes = IF FetchRefreshes(idx) THEN @ + 1 ELSE @,
                  !.served = IF FetchRefreshes(idx) THEN 1 ELSE @ + 1]
    /\ idx' = idx + 1
    /\ UNCHANGED << batchVars, cfg, site, run, atOpen, known, rewrites, raised, stop, ret, pc,
                    jobIDs, old_job_streak >>
    /\ UNCHANGED storeVars /\ UNCHANGED walkVars

\* a turn that ends before the fetch: open_job_view or parse_job_page_fields
\* raises, and the handler of the turn goes to the next identifier
TurnRaisesBeforeFetch ==
    /\ pc = "collect"
    /\ call.fn = "_collect_jobs"
    /\ idx < call.len
    /\ idx' = idx + 1
    /\ raised' \in {"open_job_view", "parse_job_page_fields"}
    /\ UNCHANGED << batchVars, cfg, site, run, atOpen, known, rewrites, stop, ret, pc, call,
                    jobIDs, old_job_streak >>
    /\ UNCHANGED storeVars /\ UNCHANGED walkVars

\* the for loop has ended; the next page is opened
PageCollected ==
    /\ pc = "collect"
    /\ call.fn = "_collect_jobs"
    /\ idx = call.len
    /\ pc' = "loop"
    /\ raised' = "none"
    /\ UNCHANGED << batchVars, cfg, site, run, atOpen, known, rewrites, stop, ret, call >>
    /\ UNCHANGED storeVars /\ UNCHANGED walkVars /\ UNCHANGED pageVars

NextRefresh ==
    \/ CollectPage
    \/ TurnFetches
    \/ TurnRaisesBeforeFetch
    \/ PageCollected

SpecRefresh == InitRefresh /\ [][NextRefresh]_vars

\* ---- _extract_posted_at on nested payloads
\* the values of a parsed payload: numbers, strings, booleans, dicts (their
\* items in the order of the object) and lists
JNum(n) == [t |-> "num", n |-> n]
JStr == [t |-> "str"]
JTrue == [t |-> "bool", b |-> TRUE]
JDict(items) == [t |-> "dict", items |-> items]
JList(items) == [t |-> "list", items |-> items]
Item(k, v) == [k |-> k, v |-> v]

\* what a timestamp key may hold: a moment (1 or 2), zero, a negative number,
\* a string, true
Leaves == {JNum(0), JNum(0 - 5), JNum(1), JNum(2), JStr, JTrue}
TimeKeys == {"listedAt", "originalListedAt"}

\* dicts of no nesting: none, one or both of the keys, in either order
LeafDicts ==
    {JDict(<<>>)}
    \cup {JDict(<< Item(k, v) >>) : k \in TimeKeys, v \in Leaves}
    \cup {d \in {JDict(<< Item(k1, v1), Item(k2, v2) >>) :
                      k1 \in TimeKeys, k2 \in TimeKeys, v1 \in Leaves, v2 \in Leaves} :
             d.items[1].k # d.items[2].k}

\* the items of the payload: a key of its own, a dict below, a list below
TopItems ==
    {Item(k, v) : k \in TimeKeys, v \in Leaves}
    \cup {Item("data", d) : d \in LeafDicts}
    \cup {Item("included", JList(<< d >>)) : d \in LeafDicts}

Payloads ==
    {d \in {JDict(<< a, b >>) : a \in TopItems, b \in TopItems} :
        d.items[1].k # d.items[2].k}

NoHit == [t |-> "none"]

\* isinstance(v, (int, float)) and v > 0: bool is a subclass of int, and
\* True > 0
IsPositiveNumber(v) == (v.t = "num" /\ v.n > 0) \/ (v.t = "bool" /\ v.b)

\* the first element of a sequence of search results that is a hit
RECURSIVE FirstHit(_)
FirstHit(q) ==
    IF q = <<>> THEN NoHit
    ELSE IF Head(q) # NoHit THEN Head(q) ELSE FirstHit(Tail(q))

\* _find_first_ms_by_keys_recursive for a tuple of one key: the dict's own
\* key first, then its values in order; the elements of a list in order
RECURSIVE FindFirstMsByKeysRecursive(_, _)
FindFirstMsByKeysRecursive(obj, key) ==
    IF obj.t = "dict" THEN
        LET own == {i \in 1..Len(obj.items) :
                       obj.items[i].k = key /\ IsPositiveNumber(obj.items[i].v)}
        IN IF own # {} THEN obj.items[CHOOSE i \in own : TRUE].v
           ELSE FirstHit([i \in 1..Len(obj.items) |->
                             FindFirstMsByKeysRecursive(obj.items[i].v, key)])
    ELSE IF obj.t = "list" THEN
        FirstHit([i \in 1..Len(obj.items) |->
                     FindFirstMsByKeysRecursive(obj.items[i], key)])
    ELSE NoHit

\* datetime.fromtimestamp(float(True) / 1000.0): the first second of 1970
EpochDate == "1970-01-01 00:00:00"

FormatMs(v) == IF v.t = "bool" THEN EpochDate ELSE FormatMsEpoch(v.n)

\* _extract_posted_at(data) on a nested payload
ExtractPostedAtNested(data) ==
    LET listed == FindFirstMsByKeysRecursive(data, "listedAt")
        ts == IF listed # NoHit THEN listed
              ELSE FindFirstMsByKeysRecursive(data, "originalListedAt")
    IN IF ts = NoHit THEN "" ELSE FormatMs(ts)

PostedCalls == [fn : {"_extract_posted_at"}, data : Payloads]

InitJson ==
    /\ file = [exists |-> TRUE, lines |-> <<Header>>]
    /\ cfg = BaseConfig
    /\ savedJobIDs = {}
    /\ checked_companies = {}
    /\ run = 1
    /\ pc = "call"
    /\ atOpen = NoFile
    /\ rewrites = 1
    /\ call \in PostedCalls
    /\ ret = "none"
    /\ site = {}
    /\ Idle
    /\ NoBatch

ApplyExtractPostedAt ==
    /\ pc = "call"
    /\ call.fn = "_extract_posted_at"
    /\ ret' = ExtractPostedAtNested(call.data)
    /\ pc' = "returned"
    /\ UNCHANGED << batchVars, cfg, site, run, atOpen, known, rewrites, raised, stop, call >>
    /\ UNCHANGED storeVars /\ UNCHANGED walkVars /\ UNCHANGED pageVars

SpecJson == InitJson /\ [][ApplyExtractPostedAt]_vars

\* ---- _is_authwall_or_checkpoint on the texts of a page
\* the words looked for in the URL, in the title and in the body
UrlWords == {"checkpoint", "authwall", "login", "challenge"}
TitleWords == {"sign in", "security verification", "authentication"}
BodyWords == {"security verification", "confirm your identity", "sign in to linkedin"}

\* a text of the model: nothing of note, one of the words, or a word in capitals
PageTexts == {""} \cup UrlWords \cup TitleWords \cup BodyWords
                  \cup {"Sign In", "CheckPoint"}

\* str.lower on the texts of the model
LowerText(t) ==
    IF t = "Sign In" THEN "sign in"
    ELSE IF t = "CheckPoint" THEN "checkpoint" ELSE t

\* x in text: the text is the word, or holds it
Holds(text, x) ==
    \/ text = x
    \/ text = "sign in to linkedin" /\ x = "sign in"

\* what reading the page raises: nothing, the URL or the title (out of the
\* outer try), the body (swallowed, body = "")
ReadFailures == {"none", "url", "title", "body"}

Pages == [url : PageTexts, title : PageTexts, body : PageTexts, raises : ReadFailures]

\* a variant with one list of words for the three texts
AuthwallAnyWordAnywhere(page) ==
    IF page.raises \in {"url", "title"} THEN FALSE
    ELSE LET words == UrlWords \cup TitleWords \cup BodyWords
             url == LowerText(page.url)
             title == LowerText(page.title)
             body == IF page.raises = "body" THEN "" ELSE LowerText(page.body)
         IN \E x \in words : Holds(url, x) \/ Holds(title, x) \/ Holds(body, x)

\* _is_authwall_or_checkpoint on the page the browser shows
AuthwallOrCheckpoint(page) ==
    IF page.raises \in {"url", "title"} THEN FALSE
    ELSE LET url == LowerText(page.url)
             title == LowerText(page.title)
         IN IF \E x \in UrlWords : Holds(url, x) THEN TRUE
            ELSE IF \E x \in TitleWords : Holds(title, x) THEN TRUE
            ELSE LET body == IF page.raises = "body" THEN "" ELSE LowerText(page.body)
                 IN \E x \in BodyWords : Holds(body, x)

WallCalls == [fn : {"_is_authwall_or_checkpoint"}, page : Pages]

InitPage ==
    /\ file = [exists |-> TRUE, lines |-> <<Header>>]
    /\ cfg = BaseConfig
    /\ savedJobIDs = {}
    /\ checked_companies = {}
    /\ run = 1
    /\ pc = "call"
    /\ atOpen = NoFile
    /\ rewrites = 1
    /\ call \in WallCalls
    /\ ret = "none"
    /\ site = {}
    /\ Idle
    /\ NoBatch

ApplyIsAuthwallOrCheckpoint ==
    /\ pc = "call"
    /\ call.fn = "_is_authwall_or_checkpoint"
    /\ ret' = AuthwallOrCheckpoint(call.page)
    /\ pc' = "returned"
    /\ UNCHANGED << batchVars, cfg, site, run, atOpen, known, rewrites, raised, stop, call >>
    /\ UNCHANGED storeVars /\ UNCHANGED walkVars /\ UNCHANGED pageVars

SpecPage == InitPage /\ [][ApplyIsAuthwallOrCheckpoint]_vars

\* ---- JobCollector.__init__ on the stop parameters of a configuration
\* the values a parameter may be given; 0 stands for a missing one as well
\* (main passes the default or 0 for a key the file lacks, and x or d takes
\* None as it takes 0)
ParamValues == {0 - 5, 0 - 2, 0, 1, 2, 30}

InitCalls ==
    [fn : {"__init__"},
     date_posted_days : ParamValues,
     stop_old_posted_consecutive_limit : ParamValues,
     stop_old_posted_days_threshold : ParamValues,
     stop_empty_pages_consecutive_limit : ParamValues]

InitParams ==
    /\ file = [exists |-> TRUE, lines |-> <<Header>>]
    /\ cfg = BaseConfig
    /\ savedJobIDs = {}
    /\ checked_companies = {}
    /\ run = 1
    /\ pc = "call"
    /\ atOpen = NoFile
    /\ rewrites = 1
    /\ call \in InitCalls
    /\ ret = "none"
    /\ site = {}
    /\ Idle
    /\ NoBatch

\* the attributes __init__ derives from the arguments
JobCollectorInit ==
    /\ pc = "call"
    /\ call.fn = "__init__"
    /\ ret' = [date_posted_days |-> DatePostedDays(call),
               stop_old_posted_consecutive_limit |-> StopOldLimit(call),
               stop_old_posted_days_threshold |-> StopOldDaysThreshold(call),
               stop_empty_pages_consecutive_limit |-> StopEmptyLimit(call)]
    /\ pc' = "returned"
    /\ UNCHANGED << batchVars, cfg, site, run, atOpen, known, rewrites, raised, stop, call >>
    /\ UNCHANGED storeVars /\ UNCHANGED walkVars /\ UNCHANGED pageVars

SpecParams == InitParams /\ [][JobCollectorInit]_vars

\* ---- _normalize_company_url applied to a link, then to its own result
InitUrl ==
    /\ file = [exists |-> TRUE, lines |-> <<Header>>]
    /\ cfg = BaseConfig
    /\ savedJobIDs = {}
    /\ checked_companies = {}
    /\ run = 1
    /\ pc = "call"
    /\ atOpen = NoFile
    /\ rewrites = 1
    /\ call \in UrlCalls
    /\ ret = "none"
    /\ site = {}
    /\ Idle
    /\ NoBatch

NormalizeLink ==
    /\ pc = "call"
    /\ call.fn = "_normalize_company_url"
    /\ ret' = [url |-> CompanyUrlPieces(Url(call))]
    /\ pc' = "returned"
    /\ UNCHANGED << batchVars, cfg, site, run, atOpen, known, rewrites, raised, stop, call >>
    /\ UNCHANGED storeVars /\ UNCHANGED walkVars /\ UNCHANGED pageVars

NormalizeResult ==
    /\ pc = "returned"
    /\ call.fn = "_normalize_company_url"
    /\ ret' = [url |-> ret.url, again |-> CompanyUrlPieces(ret.url)]
    /\ pc' = "again"
    /\ UNCHANGED << batchVars, cfg, site, run, atOpen, known, rewrites, raised, stop, call >>
    /\ UNCHANGED storeVars /\ UNCHANGED walkVars /\ UNCHANGED pageVars

NextUrl ==
    \/ NormalizeLink
    \/ NormalizeResult

SpecUrl == InitUrl /\ [][NextUrl]_vars

\* ---- the scoring batch (LLM_postprocess_multithread.py): main submits one
\* task for each row left to process to a pool of threads and writes the
\* rows of the finished tasks itself
\* the threads of the pool (max_workers)
Workers == {"w1", "w2"}

\* an input row: its identifier, and whether it has a job_description
InRow(id, jd) == [jobID |-> id, job_description |-> jd]

\* an output row: the identifier and what qualify_reason records
OutRow(id, reason) == [jobID |-> id, qualify_reason |-> reason]
NoRow == OutRow("", "")

BatchInputs ==
    {<< InRow("101", TRUE), InRow("102", TRUE) >>,
     << InRow("101", TRUE), InRow("102", FALSE) >>,
     << InRow("101", FALSE), InRow("", TRUE), InRow("102", TRUE) >>,
     << InRow("101", TRUE), InRow("101", TRUE) >>,
     << InRow("101", TRUE), InRow("102", TRUE), InRow("103", TRUE) >>}

\* the output file before the first run: absent or empty, or left by a run
\* that was cut short
BatchOutputs == {<<>>, << OutRow("101", "LLM error: request failed") >>}

\* what the call of the model and the reading of its answer come to
ChatOutcomes ==
    {"scored", "LLM error: request failed", "Parse error: no JSON", "Worker exception"}

InitBatch ==
    /\ file = [exists |-> TRUE, lines |-> <<Header>>]
    /\ cfg = BaseConfig
    /\ savedJobIDs = {}
    /\ checked_companies = {}
    /\ run = 1
    /\ pc = "main"
    /\ atOpen = NoFile
    /\ rewrites = 1
    /\ NoCall
    /\ site = {}
    /\ Idle
    /\ in_rows \in BatchInputs
    /\ out_file \in BatchOutputs
    /\ processed = {}
    /\ to_process = <<>>
    /\ futures = <<>>
    /\ workers = [w \in Workers |-> [pc |-> "idle", task |-> 0]]
    /\ thread_local = [w \in Workers |-> None]
    /\ clients = <<>>
    /\ writing = {}
    /\ written = <<>>

\* load_processed_jobids: the identifiers of the rows of the output file
LoadProcessedJobids(rows) == {rows[i].jobID : i \in 1..Len(rows)} \ {""}

\* a variant that does not count the rows that record an error
LoadBatchRetriesErrors ==
    /\ pc = "main"
    /\ processed' = {out_file[i].jobID :
                        i \in {k \in 1..Len(out_file) : out_file[k].qualify_reason = "scored"}}
    /\ to_process' = SelectSeq(in_rows, LAMBDA r : r.jobID # "" /\ r.jobID \notin processed')
    /\ futures' = <<>>
    /\ written' = <<>>
    /\ pc' = IF to_process' = <<>> THEN "consume" ELSE "submit"
    /\ UNCHANGED << in_rows, out_file, workers, thread_local, clients, writing >>
    /\ UNCHANGED << file, savedJobIDs, checked_companies, cfg, run, combos, combo,
                    jobs_per_page, elapsed, empty_page_streak, jobIDs, idx,
                    old_job_streak, raised, stop, walked, empties, atOpen, known,
                    rewrites, call, ret, site >>

\* main down to the pool: the rows read, processed loaded from the output
\* file, to_process the rows with an identifier that is not in it
LoadBatch ==
    /\ pc = "main"
    /\ processed' = LoadProcessedJobids(out_file)
    /\ to_process' = SelectSeq(in_rows, LAMBDA r : r.jobID # "" /\ r.jobID \notin processed')
    /\ futures' = <<>>
    /\ written' = <<>>
    /\ pc' = IF to_process' = <<>> THEN "consume" ELSE "submit"
    /\ UNCHANGED << in_rows, out_file, workers, thread_local, clients, writing >>
    /\ UNCHANGED << file, savedJobIDs, checked_companies, cfg, run, combos, combo,
                    jobs_per_page, elapsed, empty_page_streak, jobIDs, idx,
                    old_job_streak, raised, stop, walked, empties, atOpen, known,
                    rewrites, call, ret, site >>

\* ex.submit(process_one_job, r, ...) for the next row; after the last one
\* main goes on to as_completed
Submit ==
    /\ pc = "submit"
    /\ Len(futures) < Len(to_process)
    /\ futures' = Append(futures, [state |-> "queued", result |-> NoRow, yielded |-> FALSE])
    /\ pc' = IF Len(futures') = Len(to_process) THEN "consume" ELSE "submit"
    /\ UNCHANGED << in_rows, out_file, processed, to_process, workers, thread_local,
                    clients, writing, written >>
    /\ UNCHANGED << file, savedJobIDs, checked_companies, cfg, run, combos, combo,
                    jobs_per_page, elapsed, empty_page_streak, jobIDs, idx,
                    old_job_streak, raised, stop, walked, empties, atOpen, known,
                    rewrites, call, ret, site >>

\* a thread of the pool takes the task at the head of the queue
TakeTask(w) ==
    /\ workers[w].pc = "idle"
    /\ \E i \in 1..Len(futures) :
         /\ futures[i].state = "queued"
         /\ \A j \in 1..(i - 1) : futures[j].state # "queued"
         /\ futures' = [futures EXCEPT ![i].state = "running"]
         /\ workers' = [workers EXCEPT ![w] = [pc |-> "job", task |-> i]]
    /\ UNCHANGED << in_rows, out_file, processed, to_process, thread_local, clients,
                    writing, written, pc >>
    /\ UNCHANGED << file, savedJobIDs, checked_companies, cfg, run, combos, combo,
                    jobs_per_page, elapsed, empty_page_streak, jobIDs, idx,
                    old_job_streak, raised, stop, walked, empties, atOpen, known,
                    rewrites, call, ret, site >>

\* process_one_job on a row without a description: the row is returned at once
NoDescription(w) ==
    /\ workers[w].pc = "job"
    /\ LET i == workers[w].task IN
         /\ ~to_process[i].job_description
         /\ futures' = [futures EXCEPT
                          ![i].state = "done",
                          ![i].result = OutRow(to_process[i].jobID, "No job_description")]
    /\ workers' = [workers EXCEPT ![w] = [pc |-> "idle", task |-> 0]]
    /\ UNCHANGED << in_rows, out_file, processed, to_process, thread_local, clients,
                    writing, written, pc >>
    /\ UNCHANGED << file, savedJobIDs, checked_companies, cfg, run, combos, combo,
                    jobs_per_page, elapsed, empty_page_streak, jobIDs, idx,
                    old_job_streak, raised, stop, walked, empties, atOpen, known,
                    rewrites, call, ret, site >>

\* a variant with one client for the module: made by the first thread that
\* asks, handed to every thread that asks later
GetSharedClient(w) ==
    /\ workers[w].pc = "job"
    /\ to_process[workers[w].task].job_description
    /\ IF clients = <<>>
       THEN /\ clients' = << [made_by |-> w, used_by |-> {}] >>
            /\ thread_local' = [thread_local EXCEPT ![w] = 1]
       ELSE /\ clients' = clients
            /\ thread_local' = [thread_local EXCEPT ![w] = 1]
    /\ workers' = [workers EXCEPT ![w].pc = "chat"]
    /\ UNCHANGED << in_rows, out_file, processed, to_process, futures, writing,
                    written, pc >>
    /\ UNCHANGED << file, savedJobIDs, checked_companies, cfg, run, combos, combo,
                    jobs_per_page, elapsed, empty_page_streak, jobIDs, idx,
                    old_job_streak, raised, stop, walked, empties, atOpen, known,
                    rewrites, call, ret, site >>

\* get_thread_client: the client of this thread's _thread_local, made when
\* the attribute is not there yet
GetThreadClient(w) ==
    /\ workers[w].pc = "job"
    /\ to_process[workers[w].task].job_description
    /\ IF thread_local[w] = None
       THEN /\ clients' = Append(clients, [made_by |-> w, used_by |-> {}])
            /\ thread_local' = [thread_local EXCEPT ![w] = Len(clients) + 1]
       ELSE /\ clients' = clients
            /\ thread_local' = thread_local
    /\ workers' = [workers EXCEPT ![w].pc = "chat"]
    /\ UNCHANGED << in_rows, out_file, processed, to_process, futures, writing,
                    written, pc >>
    /\ UNCHANGED << file, savedJobIDs, checked_companies, cfg, run, combos, combo,
                    jobs_per_page, elapsed, empty_page_streak, jobIDs, idx,
                    old_job_streak, raised, stop, walked, empties, atOpen, known,
                    rewrites, call, ret, site >>

\* a variant in which the thread writes the row it has made to the file
ChatOnceWritesRow(w) ==
    /\ workers[w].pc = "chat"
    /\ LET i == workers[w].task
           c == thread_local[w]
       IN /\ clients' = [clients EXCEPT ![c].used_by = @ \cup {w}]
          /\ \E outcome \in ChatOutcomes :
                /\ futures' = [futures EXCEPT
                                 ![i].state = "done",
                                 ![i].result = OutRow(to_process[i].jobID, outcome)]
                /\ writing' = writing \cup {[thread |-> w, task |-> i]}
    /\ workers' = [workers EXCEPT ![w] = [pc |-> "idle", task |-> 0]]
    /\ UNCHANGED << in_rows, out_file, processed, to_process, thread_local,
                    written, pc >>
    /\ UNCHANGED << file, savedJobIDs, checked_companies, cfg, run, combos, combo,
                    jobs_per_page, elapsed, empty_page_streak, jobIDs, idx,
                    old_job_streak, raised, stop, walked, empties, atOpen, known,
                    rewrites, call, ret, site >>

\* client.chat_once with the thread's client, parse_json_loose and the
\* scores; every error and every exception ends in a row that is returned
ChatOnce(w) ==
    /\ workers[w].pc = "chat"
    /\ LET i == workers[w].task
           c == thread_local[w]
       IN /\ clients' = [clients EXCEPT ![c].used_by = @ \cup {w}]
          /\ \E outcome \in ChatOutcomes :
                futures' = [futures EXCEPT
                              ![i].state = "done",
                              ![i].result = OutRow(to_process[i].jobID, outcome)]
    /\ workers' = [workers EXCEPT ![w] = [pc |-> "idle", task |-> 0]]
    /\ UNCHANGED << in_rows, out_file, processed, to_process, thread_local,
                    writing, written, pc >>
    /\ UNCHANGED << file, savedJobIDs, checked_companies, cfg, run, combos, combo,
                    jobs_per_page, elapsed, empty_page_streak, jobIDs, idx,
                    old_job_streak, raised, stop, walked, empties, atOpen, known,
                    rewrites, call, ret, site >>

\* as_completed yields a finished future that it has not yielded yet;
\* fut.result() and the call of writer.writerow
Consume ==
    /\ pc = "consume"
    /\ \E i \in 1..Len(futures) :
         /\ futures[i].state = "done"
         /\ ~futures[i].yielded
         /\ futures' = [futures EXCEPT ![i].yielded = TRUE]
         /\ writing' = writing \cup {[thread |-> "main", task |-> i]}
    /\ pc' = "write"
    /\ UNCHANGED << in_rows, out_file, processed, to_process, workers, thread_local,
                    clients, written >>
    /\ UNCHANGED << file, savedJobIDs, checked_companies, cfg, run, combos, combo,
                    jobs_per_page, elapsed, empty_page_streak, jobIDs, idx,
                    old_job_streak, raised, stop, walked, empties, atOpen, known,
                    rewrites, call, ret, site >>

\* writerow and flush have put the row into the file; processed.add
WriteRow ==
    /\ pc = "write"
    /\ \E wr \in writing :
         /\ wr.thread = "main"
         /\ out_file' = Append(out_file, futures[wr.task].result)
         /\ processed' = processed \cup {futures[wr.task].result.jobID}
         /\ written' = Append(written, wr)
         /\ writing' = writing \ {wr}
    /\ pc' = "consume"
    /\ UNCHANGED << in_rows, to_process, futures, workers, thread_local, clients >>
    /\ UNCHANGED << file, savedJobIDs, checked_companies, cfg, run, combos, combo,
                    jobs_per_page, elapsed, empty_page_streak, jobIDs, idx,
                    old_job_streak, raised, stop, walked, empties, atOpen, known,
                    rewrites, call, ret, site >>

\* as_completed has yielded every future: the pool and the file are closed
BatchFinished ==
    /\ pc = "consume"
    /\ \A i \in 1..Len(futures) : futures[i].yielded
    /\ pc' = "finished"
    /\ UNCHANGED batchVars
    /\ UNCHANGED << file, savedJobIDs, checked_companies, cfg, run, combos, combo,
                    jobs_per_page, elapsed, empty_page_streak, jobIDs, idx,
                    old_job_streak, raised, stop, walked, empties, atOpen, known,
                    rewrites, call, ret, site >>

\* the batch is run again on the same input file and output file
RunBatchAgain ==
    /\ pc = "finished"
    /\ run < MaxRuns
    /\ run' = run + 1
    /\ pc' = "main"
    /\ processed' = {}
    /\ to_process' = <<>>
    /\ futures' = <<>>
    /\ workers' = [w \in Workers |-> [pc |-> "idle", task |-> 0]]
    /\ thread_local' = [w \in Workers |-> None]
    /\ clients' = <<>>
    /\ writing' = {}
    /\ written' = <<>>
    /\ UNCHANGED << in_rows, out_file >>
    /\ UNCHANGED << file, savedJobIDs, checked_companies, cfg, combos, combo,
                    jobs_per_page, elapsed, empty_page_streak, jobIDs, idx,
                    old_job_streak, raised, stop, walked, empties, atOpen, known,
                    rewrites, call, ret, site >>

NextBatch ==
    \/ LoadBatch
    \/ Submit
    \/ \E w \in Workers : TakeTask(w)
    \/ \E w \in Workers : NoDescription(w)
    \/ \E w \in Workers : GetThreadClient(w)
    \/ \E w \in Workers : ChatOnce(w)
    \/ Consume
    \/ WriteRow
    \/ BatchFinished
    \/ RunBatchAgain

\* the threads of the pool and main are scheduled again and again, and the
\* requests of chat_once have timeouts
SpecBatch == InitBatch /\ [][NextBatch]_vars /\ WF_vars(NextBatch)

\* ---- one call of _collect_jobs on a page of four new listings
StaleExtractions ==
    {[company |-> "Acme", posted_at |-> p, about |-> NoLink, wall |-> "none"] :
        p \in {OldDate, EdgeDate, FreshDate, BadDate, ""}}

StaleConfigs ==
    {[BaseConfig EXCEPT !.stop_old_posted_consecutive_limit = 3],
     [BaseConfig EXCEPT !.stop_old_posted_consecutive_limit = 2,
                        !.stop_old_posted_days_threshold = 0,
                        !.date_posted_days = 30],
     [BaseConfig EXCEPT !.stop_old_posted_enabled = FALSE]}

InitStale ==
    /\ file = [exists |-> TRUE, lines |-> <<Header>>]
    /\ cfg \in StaleConfigs
    /\ savedJobIDs = {}
    /\ checked_companies = {}
    /\ run = 1
    /\ pc = "collect"
    /\ atOpen = NoFile
    /\ rewrites = 1
    /\ NoCall
    /\ site = StaleExtractions
    /\ \E p \in Perms(Combos) :
         /\ combo = Head(p)
         /\ combos = Tail(p)
         /\ walked = {Head(p)}
    /\ jobs_per_page = 0
    /\ elapsed = StepSeconds
    /\ empty_page_streak = 0
    /\ empties = 0
    /\ jobIDs = <<"101", "102", "103", "104">>
    /\ idx = 0
    /\ old_job_streak = 0
    /\ raised = "none"
    /\ stop = "none"
    /\ known = 0
    /\ NoBatch

NextStale ==
    \/ CollectFails
    \/ CollectContinue
    \/ CollectAppend
    \/ CollectDone

SpecStale == InitStale /\ [][NextStale]_vars

\* ------------------------------------------------------------ properties
DataRows(f) == IF Len(f.lines) = 0 THEN <<>> ELSE Tail(f.lines)

\* the text of column c in every data row of a file that has the column
CellsOf(f, c) == [i \in 1..Len(DataRows(f)) |-> DataRows(f)[i][IndexOf(f.lines[1], c)]]

RowIds(f) ==
    IF Len(f.lines) > 0 /\ "jobID" \in Range(f.lines[1]) THEN CellsOf(f, "jobID") ELSE <<>>

\* C1: the store file never holds two rows with the same listing identifier,
\* whatever the pages show, in whatever combination or run.
C1_StoreUnique ==
    \A i, j \in 1..Len(RowIds(file)) : i # j => RowIds(file)[i] # RowIds(file)[j]

\* a second run, two rows stored, and a page that showed a stored identifier again
C1_Witness == run = 2 /\ known > 0 /\ Len(file.lines) >= 3

\* C2: a later run appends no row whose identifier the file already held when
\* the run opened it.
C2_ResumeAppendsNoStored ==
    (run >= 2 /\ pc # "init") =>
        /\ Len(file.lines) >= Len(atOpen.lines)
        /\ \A i \in (Len(atOpen.lines) + 1)..Len(file.lines) :
              file.lines[i][IndexOf(Header, "jobID")] \notin Range(RowIds(atOpen))

C2_Witness ==
    /\ run = 2 /\ pc # "init" /\ known > 0
    /\ Len(atOpen.lines) >= 2
    /\ Len(file.lines) > Len(atOpen.lines)

\* C3: with the empty-pages policy on, the streak is the number of trailing
\* collected pages without a new identifier (0 after a page with one), the walk
\* goes on while it is below the limit, and the walk is abandoned for this
\* reason with the streak exactly at the limit.
C3_EmptyPagesStop ==
    cfg.stop_empty_pages_enabled =>
        /\ empty_page_streak = empties
        /\ pc \in {"loop", "collect", "advance"} => empties < StopEmptyLimit(cfg)
        /\ stop = "empty" <=> empties >= StopEmptyLimit(cfg)
        /\ stop = "empty" => empties = StopEmptyLimit(cfg)

\* pages 0, 0, 0 at offsets 0, 25, 50 with the limit 3
C3_Witness ==
    /\ stop = "empty" /\ pc = "combo"
    /\ StopEmptyLimit(cfg) = 3 /\ empties = 3 /\ jobs_per_page = 50

PostedSeq == CellsOf(file, "posted_at")

IsStale(posted_at, c) ==
    posted_at \in DOMAIN AgeDays /\ AgeDays[posted_at] > StopOldDaysThreshold(c)

\* the trailing appended records that are stale; anything else ends the count
RECURSIVE TrailingStale(_, _)
TrailingStale(q, c) ==
    IF q = <<>> THEN 0
    ELSE IF IsStale(q[Len(q)], c) THEN 1 + TrailingStale(SubSeq(q, 1, Len(q) - 1), c)
    ELSE 0

\* the same count with the records of unknown posting date left out
RECURSIVE TrailingStaleSkippingUnknown(_, _)
TrailingStaleSkippingUnknown(q, c) ==
    IF q = <<>> THEN 0
    ELSE IF q[Len(q)] \notin DOMAIN AgeDays
         THEN TrailingStaleSkippingUnknown(SubSeq(q, 1, Len(q) - 1), c)
    ELSE IF IsStale(q[Len(q)], c)
         THEN 1 + TrailingStaleSkippingUnknown(SubSeq(q, 1, Len(q) - 1), c)
    ELSE 0

TurnSkipped ==
    /\ file' = file /\ savedJobIDs' = savedJobIDs /\ checked_companies' = checked_companies
    /\ pc' = "collect" /\ idx' = idx + 1 /\ jobIDs' = jobIDs
    /\ run' = run /\ combo' = combo /\ combos' = combos

C6_NoRaiseAbortsRun == raised # "none" => pc # "aborted"

\* C7: after start-up every step leaves the rows of the file in place, and an
\* addition to the store puts exactly one row at the end.
C7_AppendOnly ==
    [][pc # "init" =>
          /\ Len(file'.lines) \in {Len(file.lines), Len(file.lines) + 1}
          /\ SubSeq(file'.lines, 1, Len(file.lines)) = file.lines
          /\ (run' = run /\ savedJobIDs' # savedJobIDs) => Len(file'.lines) = Len(file.lines) + 1]_vars

\* a row was added behind the row another addition had written
C7_Witness == pc = "collect" /\ run = 1 /\ raised = "none" /\ Len(file.lines) = 3 /\ atOpen = NoFile

EnrichedCompanies(f) ==
    {DataRows(f)[i][IndexOf(Header, "company")] : i \in
        {k \in 1..Len(DataRows(f)) :
            \/ DataRows(f)[k][IndexOf(Header, "company_size")] # Sentinel
            \/ DataRows(f)[k][IndexOf(Header, "associated_members")] # Sentinel}}

\* C8: once the store is open, the identifier index holds exactly the
\* identifiers of the rows of the file and the company index exactly the
\* companies of the rows with a size or member count, also after a re-open.
C8_IndicesMatchFile ==
    pc # "init" =>
        /\ savedJobIDs = Range(RowIds(file))
        /\ checked_companies = EnrichedCompanies(file)

\* C9: an open of a file an earlier open has already handled leaves the file as
\* it is: same columns, same order, same rows, nothing written.
C9_SecondOpenNoRewrite == [][(pc = "init" /\ run >= 2) => file' = file]_vars

\* the first open upgraded a file with rows; the second open has run
C9_Witness == run = 2 /\ pc = "start" /\ rewrites = 1 /\ Len(file.lines) >= 2

\* C10: an open that upgrades a file keeps the number of rows and every cell of
\* every column the file had, and fills each added column with the sentinel.
C10_UpgradeKeepsCells ==
    [][(pc = "init" /\ Len(file.lines) > 0 /\ file' # file) =>
          /\ Len(file'.lines) = Len(file.lines)
          /\ \A c \in Range(file.lines[1]) :
                /\ c \in Range(file'.lines[1])
                /\ CellsOf(file', c) = CellsOf(file, c)
          /\ \A c \in Range(file'.lines[1]) \ Range(file.lines[1]) :
                \A i \in 1..Len(DataRows(file')) : CellsOf(file', c)[i] = Sentinel]_vars

\* C11: after an open whose read of the file failed, both indices are empty and
\* the run appends no row whose identifier a line of that file already holds.
C11_LoadFailureSafe ==
    (pc # "init" /\ atOpen.exists /\ ReadFails(atOpen)) =>
        /\ pc = "start" => (savedJobIDs = {} /\ checked_companies = {})
        /\ \A i \in (Len(atOpen.lines) + 1)..Len(file.lines) :
              file.lines[i][IndexOf(Header, "jobID")] \notin Range(RowIds(atOpen))

\* C12: a combination starts its walk with the empty-page streak at 0, and every
\* call of _collect_jobs, the first of a combination included, starts with the
\* stale-posting streak at 0, whatever the previous combination left.
C12_CombosStartAtZero ==
    /\ (pc = "loop" /\ elapsed = 0) => (empty_page_streak = 0 /\ jobs_per_page = 0)
    /\ (pc = "collect" /\ idx = 0) => old_job_streak = 0

\* the second combination begins its first page; the previous combination had
\* appended a stale posting as the last row, with the stale policy on
C12_Witness ==
    /\ Cardinality(walked) = 2 /\ pc = "collect" /\ idx = 0 /\ jobs_per_page = 0
    /\ cfg.stop_old_posted_enabled /\ cfg.stop_empty_pages_enabled
    /\ Len(file.lines) >= 2
    /\ file.lines[Len(file.lines)][IndexOf(Header, "search_location")] # combo[2]
    /\ IsStale(file.lines[Len(file.lines)][IndexOf(Header, "posted_at")], cfg)
    /\ old_job_streak = 0 /\ empty_page_streak = 0

LastRow(f) == f.lines[Len(f.lines)]

AboutOf(row) ==
    <<row[IndexOf(Header, "company_about_url")], row[IndexOf(Header, "company_size")],
      row[IndexOf(Header, "associated_members")]>>

\* C13: with the enrichment on, a listing whose company is in the company index
\* is added without an enrichment fetch, so with the three company fields at
\* the sentinel.
C13_KnownCompanyNotFetched ==
    [][(/\ pc = "collect" /\ cfg.fetch_company_about_enabled
        /\ Len(file'.lines) = Len(file.lines) + 1
        /\ CompanyAlreadyChecked(checked_companies, LastRow(file')[IndexOf(Header, "company")]))
          => AboutOf(LastRow(file')) = NoAbout]_vars

\* C14: in every row the three company fields are the sentinel or a captured
\* text, never the empty text; with the enrichment off all three are the
\* sentinel; a reachable about page without a size label gives the sentinel as
\* company_size.
C14_CompanyFieldsSentinelOrText ==
    /\ \A i \in 2..Len(file.lines) :
          /\ \A k \in 1..3 : AboutOf(file.lines[i])[k] # ""
          /\ ~cfg.fetch_company_about_enabled => AboutOf(file.lines[i]) = NoAbout
    /\ \A c \in Companies : \A o \in AboutOutcomes(c) :
          (o.raw # <<>> /\ o.page = "ok" /\ o.size = "")
              => FetchCompanyAboutFields(o)[2] = Sentinel

\* a row of a company whose about page was reached and showed the member count
\* but no size label
C14_Witness ==
    /\ cfg.fetch_company_about_enabled /\ Len(file.lines) >= 2
    /\ AboutOf(LastRow(file)) = <<AboutUrl, Sentinel, MembersText>>

\* the outcome the enrichment of every listing of the page meets
TheOutcome == (CHOOSE x \in site : TRUE).about

C16_NoFieldFromBlockedPage ==
    \A i \in 2..Len(file.lines) :
        /\ file.lines[i][5] \notin {WallH1, WallTitleParts[1]}
        /\ file.lines[i][6] # WallTitleParts[2]

Returned(fn) == pc = "returned" /\ call.fn = fn

\* the text derived from the answer of the JSON endpoint
JsonDerived(v) ==
    IF FetchVoyagerJson(v) # EmptyDict THEN JdVoyager(FetchVoyagerJson(v)) ELSE <<>>

\* C17: the description returned is the guest text as it is when the guest
\* text is not empty, whatever the JSON text; when the guest text is empty it
\* is the JSON-derived text, which holds no escaped entity and no tag
C17_GuestTextPreferred ==
    Returned("fetch_jd_and_posted_at") =>
        LET jd_guest == FetchGuestJd(call.guest) IN
        /\ jd_guest # <<>> => ret.jd = jd_guest
        /\ jd_guest = <<>> =>
              /\ ret.jd = JsonDerived(call.voyager)
              /\ \A i \in 1..Len(ret.jd) :
                    ret.jd[i] \notin {Tag, LongTag, EscapedTag, EscapedAmp}

C17_Witness ==
    /\ Returned("fetch_jd_and_posted_at")
    /\ FetchGuestJd(call.guest) # <<>>
    /\ JsonDerived(call.voyager) # <<>>
    /\ JsonDerived(call.voyager) # FetchGuestJd(call.guest)
    /\ ret.jd = FetchGuestJd(call.guest)

GuestFails(g) == g.raises \/ g.status # 200 \/ StripText(g.body) = <<>>
VoyagerFails(v) == v.raises \/ v.status # 200 \/ v.body = ""

\* C18: a request that raises, a status other than 200 or an empty body on
\* one endpoint empties the result of that endpoint only: when the guest
\* endpoint fails, the description and the posting time are those of the JSON
\* answer; when the JSON endpoint fails, the description is the guest text
\* and the posting time is empty
C18_EndpointsIsolated ==
    Returned("fetch_jd_and_posted_at") =>
          /\ GuestFails(call.guest) =>
                /\ ret.jd = JsonDerived(call.voyager)
                /\ ret.posted_at = IF VoyagerFails(call.voyager) \/ call.voyager.body # "json"
                                   THEN "" ELSE ExtractPostedAt(call.voyager.data)
          /\ VoyagerFails(call.voyager) =>
                /\ ret.posted_at = ""
                /\ ret.jd = IF GuestFails(call.guest) THEN <<>>
                            ELSE IF TextLen(StripText(GetText(call.guest.body))) > 80
                                 THEN StripText(GetText(call.guest.body)) ELSE <<>>

C18_Witness ==
    /\ Returned("fetch_jd_and_posted_at")
    /\ ~call.guest.raises /\ call.guest.status # 200 /\ call.guest.body # <<>>
    /\ ~VoyagerFails(call.voyager)
    /\ ret.jd # <<>>
    /\ ret.posted_at # ""

\* the address of a raw link is recognised when its host is
\* www.linkedin.com, its path /company/ and a slug follows
Recognised(c) ==
    /\ Lower(c.host) = "www.linkedin.com"
    /\ c.path = "/company/"
    /\ c.slug # <<>>

\* the link is on the site when nothing but blanks stands before its address
OnSite(c) == c.prefix \in {<<>>, << Space >>}

\* C19 as stated: a link https://www.linkedin.com/company/<slug> with any
\* suffix gives exactly https://www.linkedin.com/company/<slug>/, and a link
\* on another domain, or with no slug, gives the empty string
C19_ForeignDomainGivesEmpty ==
    Returned("_normalize_company_url") =>
        /\ (OnSite(call) /\ Recognised(call) /\ call.scheme = "https://"
                /\ call.host = "www.linkedin.com")
              => ret = "https://www.linkedin.com/company/" \o Text(call.slug) \o "/"
        /\ (~OnSite(call) \/ Lower(call.host) # "www.linkedin.com" \/ call.slug = <<>>)
              => ret = ""

\* C19: wherever in the link an address scheme://www.linkedin.com/company/<slug>
\* stands, in whatever case, the result is that address as written and one
\* slash, the rest of the link dropped; a link that holds no such address
\* gives the empty string
C19_AddressFoundAnywhere ==
    Returned("_normalize_company_url") =>
        /\ Recognised(call)
              => ret = call.scheme \o call.host \o "/company/" \o Text(call.slug) \o "/"
        /\ ~Recognised(call) => ret = ""

C19_Witness ==
    /\ Returned("_normalize_company_url")
    /\ call.prefix = <<>> /\ call.scheme = "https://" /\ call.host = "www.linkedin.com"
    /\ call.path = "/company/" /\ call.slug = << "acme" >>
    /\ call.suffix = << "/", "life", "?", "x=1" >>
    /\ ret = "https://www.linkedin.com/company/acme/"

\* C20: a step that adds a row to the file never adds one whose title holds,
\* in whatever case, a word of the configured title blacklist
C20_BlacklistedTitleNotAppended ==
    [][Len(file'.lines) > Len(file.lines) =>
          \A i \in (Len(file.lines) + 1)..Len(file'.lines) :
             \A k \in 1..Len(cfg.blackListTitles) :
                ~WordInTitle(cfg.blackListTitles[k], file'.lines[i][5])]_vars

\* a listing with a blacklisted title has just been met and left out
C20_Witness ==
    /\ pc = "collect"
    /\ idx >= 1
    /\ ~Has(savedJobIDs, jobIDs[idx])
    /\ raised = "none"
    /\ \A i \in 1..Len(file.lines) : file.lines[i][4] # jobIDs[idx]
    /\ \E k \in 1..Len(cfg.blackListTitles), t \in Titles :
          WordInTitle(cfg.blackListTitles[k], t)

\* C21: once start() has shuffled the cross product, the combinations walked
\* so far and those still to walk are disjoint and together are the cross
\* product, each once; the one being walked is among the walked; a run that
\* reaches the end of start() has walked them all
C21_EveryComboOnce ==
    /\ pc \notin {"init", "start"} =>
          /\ walked \cap Range(combos) = {}
          /\ walked \cup Range(combos) = Combos
          /\ Len(combos) + Cardinality(walked) = Cardinality(Combos)
    /\ pc \in {"loop", "collect", "advance"} => combo \in walked
    /\ pc = "done" => walked = Combos /\ combos = <<>>

C21_Witness ==
    /\ pc = "done"
    /\ Cardinality(walked) = 2
    /\ combo = << "data engineer", "Berlin" >>
    /\ Len(file.lines) >= 3

\* C22: a combination walk that has ended has ended through the empty-pages
\* stop, the stale-postings stop or the time budget, and a stop whose flag is
\* off has ended none
C22_WalkEndsByStopOrBudget ==
    /\ (pc \in {"combo", "done", "aborted"} /\ combo # <<>>) =>
          stop \in {"empty", "stale", "time"}
    /\ stop = "empty" => cfg.stop_empty_pages_enabled
    /\ stop = "stale" => cfg.stop_old_posted_enabled

\* the posting times of the rows appended in the walk of the current
\* combination, in the order of their appending
ComboPosted ==
    LET OfCombo(row) == row[14] = combo[1] /\ row[15] = combo[2]
        rows == SelectSeq(DataRows(file), OfCombo)
    IN [i \in 1..Len(rows) |-> rows[i][2]]

\* C23: in a first run on a new file, while the walk of a combination goes
\* on, the stale records appended last in that walk, on whatever pages, are
\* fewer than the limit: the walk is abandoned at the record that brings them
\* to the limit
C23_StreakSpansPages ==
    (/\ run = 1 /\ atOpen = NoFile /\ file.exists
     /\ cfg.stop_old_posted_enabled
     /\ pc \in {"loop", "collect", "advance"})
        => TrailingStale(ComboPosted, cfg) < StopOldLimit(cfg)

\* C24: a turn of the listing loop that appends nothing (the identifier is
\* in the store, the title is blacklisted, or an exception was caught) leaves
\* the stale streak as it was; a turn that appends a record whose posting
\* time parses and is not older than the threshold leaves it at 0
C24_StreakMovesOnlyOnAppend ==
    [][(pc = "collect" /\ idx' = idx + 1) =>
          /\ file' = file => old_job_streak' = old_job_streak
          /\ (/\ file' # file
              /\ file'.lines[Len(file'.lines)][2] \in DOMAIN AgeDays
              /\ ~IsStale(file'.lines[Len(file'.lines)][2], cfg))
                => old_job_streak' = 0]_vars

\* after one stale record two listings were passed over, the second for its
\* title, and the streak is still 1
C24_Witness ==
    /\ pc = "collect" /\ idx = 3
    /\ Len(file.lines) = 2
    /\ IsStale(file.lines[2][2], cfg)
    /\ file.lines[2][4] = "101"
    /\ raised = "none"
    /\ old_job_streak = 1

\* C25: from a state in which the empty-pages stop or the stale stop has
\* triggered, no step appends a row, and as long as the combination is the
\* same no step takes a listing of the page, opens a results page or goes
\* back into the loop
C25_NothingAfterStop ==
    [][(stop = "empty" \/ stop = "stale") =>
          (/\ file' = file
           /\ combo' = combo =>
                 (/\ idx' = idx
                  /\ jobs_per_page' = jobs_per_page
                  /\ pc' \notin {"loop", "collect", "advance"}))]_vars

\* the stale stop has triggered with a listing of the page not yet taken
\* and another combination still to walk
C25_Witness ==
    /\ pc = "combo" /\ stop = "stale"
    /\ idx < Len(jobIDs)
    /\ combos # <<>>

\* C26: the walk ends for the time budget only from the head of the loop,
\* with the budget used up; the loop over a page is left only when every
\* listing of the page has had its turn or when the stale stop triggers,
\* whatever the time elapsed
C26_BudgetTestedAtLoopHead ==
    [][/\ (stop' = "time" /\ stop # "time") =>
             (pc = "loop" /\ ~(elapsed < MAX_SEARCH_TIME))
       /\ (pc = "collect" /\ pc' # "collect") =>
             \/ pc' = "advance" /\ idx = Len(jobIDs)
             \/ pc' = "combo" /\ stop' = "stale"]_vars

\* a record appended in a turn that began with the budget used up
C26_Witness ==
    /\ pc = "collect"
    /\ idx >= 1
    /\ elapsed >= MAX_SEARCH_TIME + StepSeconds
    /\ file.lines[Len(file.lines)][4] = jobIDs[idx]

\* the step collects the identifiers of the page on display
CollectsPage ==
    /\ pc = "loop"
    /\ \/ pc' \in {"collect", "advance"}
       \/ pc' = "combo" /\ stop' = "empty"

\* C27: identifiers are collected only from a results page that
\* open_search_page has opened at the current offset: no collection is made
\* after the opening of the page at the current offset has raised, which
\* would leave that offset without a collection
C27_CollectedAtEveryOffset ==
    [][CollectsPage => raised # "search"]_vars

\* C28 as stated: in the second run no identifier the first run met is
\* collected again, whether the first run appended it or passed it over
\* (every identifier of IDs was met by the first run)
C28_MetIdsFiltered ==
    (run = 2 /\ pc # "init") => Range(jobIDs) \cap IDs = {}

\* C28: in the second run no identifier the first run appended is collected
\* (so its detail page is not opened), and a page on which every listing is
\* of that kind raises the empty-page streak when the policy is on; an
\* identifier the first run passed over is not in the file and is collected
\* again
C28_AppendedIdsFiltered ==
    (run = 2 /\ pc # "init") =>
        /\ Range(jobIDs) \cap Range(RowIds(atOpen)) = {}
        /\ (known > 0 /\ jobIDs = <<>> /\ cfg.stop_empty_pages_enabled)
              => empty_page_streak >= 1
        /\ (known > 0 /\ jobIDs = <<>> /\ ~cfg.stop_empty_pages_enabled)
              => empty_page_streak = 0

\* the page shows 101, which the first run appended, and 102, which it
\* passed over: 102 alone is collected
C28_Witness ==
    /\ run = 2 /\ pc = "collect"
    /\ RowIds(atOpen) = << "101" >>
    /\ known > 0
    /\ jobIDs = << "102" >>

\* the polls made so far met neither the wall nor a link, the last one aside
QuietBefore(n) == \A i \in 1..(n - 1) : ~call.views[i].wall /\ ~call.views[i].link

\* C29 as stated: the wait returns true at the first poll that meets a
\* company link, and false only when the deadline has passed without one
C29_TrueAtFirstLink ==
    Returned("wait_company_link_ready") =>
        /\ \A i \in 1..idx : call.views[i].link => (ret = TRUE /\ i = idx)
        /\ ret = FALSE => ~(elapsed < call.timeout)

\* C29: every poll begins before the deadline, so the polls are at most
\* timeout / interval + 1; each poll tests the wall first: the wait returns
\* false at the first poll that meets a sign of the wall, link or no link,
\* true at the first poll that meets a link and no sign of the wall, and
\* false when the deadline has passed with neither met
C29_WallThenLinkThenDeadline ==
    call.fn = "wait_company_link_ready" =>
        /\ idx >= 1 => (idx - 1) * PollInterval < call.timeout
        /\ idx <= (call.timeout \div PollInterval) + 1
        /\ pc = "call" => QuietBefore(idx + 1)
        /\ pc = "returned" =>
              /\ QuietBefore(idx)
              /\ ret = TRUE <=> (idx >= 1 /\ call.views[idx].link /\ ~call.views[idx].wall)
              /\ ret = FALSE =>
                    \/ idx >= 1 /\ call.views[idx].wall
                    \/ /\ ~(elapsed < call.timeout)
                       /\ QuietBefore(idx + 1)

\* the second poll meets a company link on a page that shows a sign of the
\* wall, and the wait returns false before the deadline
C29_Witness ==
    /\ Returned("wait_company_link_ready")
    /\ idx = 2
    /\ call.views[2].wall /\ call.views[2].link
    /\ elapsed < call.timeout
    /\ ret = FALSE

\* C30: after the open of a file of the older format, whose first line is
\* no header and names no jobID column, the identifier index holds the
\* second cell of every line the file had
C30_LegacyIdsIndexed ==
    (pc # "init" /\ run = 1 /\ atOpen \in LegacyFiles) =>
        \A i \in 1..Len(atOpen.lines) : atOpen.lines[i][2] \in savedJobIDs

\* C31: add writes the row before it touches the indices: a turn that ends
\* with an exception out of add leaves the identifier index and the company
\* index as they were, and every identifier in the index is the identifier
\* of a row of the file (loaded at the open or written since)
C31_RowBeforeIndex ==
    /\ [][(raised' = "store.add") =>
            (savedJobIDs' = savedJobIDs /\ checked_companies' = checked_companies)]_vars
    /\ [](pc # "init" => savedJobIDs \subseteq Range(RowIds(file)))

\* add has raised for a listing after an earlier listing of the page was stored
C31_Witness ==
    /\ raised = "store.add"
    /\ idx >= 2
    /\ Cardinality(savedJobIDs) = 1
    /\ Len(RowIds(file)) = 1

\* C32: every refresh of the session after the first listing's comes when
\* the session in use has served exactly cookie_refresh_every listings,
\* wherever the pages end
C32_TwentyPerSession ==
    [][(call'.refreshes # call.refreshes /\ call.refreshes >= 2) =>
         call.served = cookie_refresh_every]_vars

\* the values under a key in the order of the search: the dict's own key,
\* then what lies below its values; what lies below the elements of a list
RECURSIVE Concat(_)
Concat(qs) == IF qs = <<>> THEN <<>> ELSE Head(qs) \o Concat(Tail(qs))

RECURSIVE ValuesUnder(_, _)
ValuesUnder(obj, key) ==
    IF obj.t = "dict" THEN
        SelectSeq([i \in 1..Len(obj.items) |-> obj.items[i]],
                  LAMBDA it : it.k = key)
    ELSE <<>>

RECURSIVE Below(_, _)
Below(obj, key) ==
    IF obj.t = "dict" THEN
        [i \in 1..Len(ValuesUnder(obj, key)) |-> ValuesUnder(obj, key)[i].v]
        \o Concat([i \in 1..Len(obj.items) |-> Below(obj.items[i].v, key)])
    ELSE IF obj.t = "list" THEN
        Concat([i \in 1..Len(obj.items) |-> Below(obj.items[i], key)])
    ELSE <<>>

\* the positive numbers under a key, in the order of the search
PositiveUnder(obj, key) ==
    SelectSeq(Below(obj, key), LAMBDA v : v.t = "num" /\ v.n > 0)

\* C33: the posting time is the first positive number under listedAt in
\* depth-first order when there is one, wherever originalListedAt stands;
\* else the first positive number under originalListedAt; zero, negative
\* and non-numeric values count as unpopulated; with no positive number
\* under either key it is the empty string
C33_FirstPositiveByPriority ==
    (pc = "returned" /\ call.fn = "_extract_posted_at") =>
        LET listed == PositiveUnder(call.data, "listedAt")
            original == PositiveUnder(call.data, "originalListedAt")
        IN ret = IF listed # <<>> THEN FormatMsEpoch(listed[1].n)
                 ELSE IF original # <<>> THEN FormatMsEpoch(original[1].n)
                 ELSE ""

\* the payload with one of its strings alone
OnlyString(data, i) ==
    [data EXCEPT !.strings = [j \in 1..Len(Paths) |->
                                 IF j = i THEN data.strings[j] ELSE Absent]]

\* the strings of the minimum length, and those of them under a path that
\* holds "description", by their place in the payload
LongStrings(data) == {i \in 1..Len(Paths) : IsHit(data, i)}
DescribedStrings(data) == {i \in LongStrings(data) : PathHasDescription(Paths[i])}
FirstInPayload(S) == CHOOSE i \in S : \A j \in S : i <= j
Longest(data, S) ==
    CHOOSE i \in S : \A j \in S \ {i} :
        TextLen(StripText(data.strings[i])) > TextLen(StripText(data.strings[j]))
        \/ (TextLen(StripText(data.strings[i])) = TextLen(StripText(data.strings[j])) /\ i < j)

\* C34: the JSON-derived description comes from the first string of the
\* payload that has the minimum length and lies under a path holding
\* "description", whenever there is one; from the longest string of the
\* minimum length only when there is none
C34_FirstDescribedString ==
    (Returned("fetch_jd_and_posted_at")
        /\ FetchGuestJd(call.guest) = <<>>
        /\ FetchVoyagerJson(call.voyager) # EmptyDict) =>
        LET data == FetchVoyagerJson(call.voyager) IN
        ret.jd = IF DescribedStrings(data) # {}
                 THEN JdVoyager(OnlyString(data, FirstInPayload(DescribedStrings(data))))
                 ELSE IF LongStrings(data) # {}
                      THEN JdVoyager(OnlyString(data, Longest(data, LongStrings(data))))
                      ELSE <<>>

\* the phrases the statement names
NamedPhrases ==
    {"sign in", "security verification", "checkpoint", "authwall", "confirm your identity"}

\* a text holds a phrase, capitals or not
Occurs(text, x) ==
    \E low \in {"sign in", "checkpoint", text} :
        /\ (low = text \/ (text = "Sign In" /\ low = "sign in")
                       \/ (text = "CheckPoint" /\ low = "checkpoint"))
        /\ (low = x \/ (low = "sign in to linkedin" /\ x = "sign in"))

\* C35 as stated: the page is blocked exactly when one of the five phrases
\* occurs in its URL, its title or its body; a failure while reading gives
\* not blocked
C35_BlockedIffNamedPhrase ==
    (pc = "returned" /\ call.fn = "_is_authwall_or_checkpoint") =>
        /\ call.page.raises = "none" =>
              (ret = TRUE <=>
                  \E x \in NamedPhrases :
                      \/ Occurs(call.page.url, x)
                      \/ Occurs(call.page.title, x)
                      \/ Occurs(call.page.body, x))
        /\ call.page.raises # "none" => ret = FALSE

\* the signs of a block: which phrase in which text
BlockSigns ==
    {<< "url", x >> : x \in {"checkpoint", "authwall", "login", "challenge"}}
    \cup {<< "title", x >> : x \in {"sign in", "security verification", "authentication"}}
    \cup {<< "body", x >> : x \in {"security verification", "confirm your identity",
                                   "sign in to linkedin"}}

\* C35: the page is blocked exactly when the URL and the title were read
\* and a sign is met: checkpoint, authwall, login or challenge in the URL;
\* sign in, security verification or authentication in the title; security
\* verification, confirm your identity or sign in to linkedin in a body
\* that could be read; capitals do not matter. A failure while reading the
\* URL or the title gives not blocked; a body that cannot be read counts as
\* empty
C35_BlockedIffSignInItsText ==
    (pc = "returned" /\ call.fn = "_is_authwall_or_checkpoint") =>
        (ret = TRUE <=>
            /\ call.page.raises \notin {"url", "title"}
            /\ \E sign \in BlockSigns :
                  /\ sign[1] = "body" => call.page.raises # "body"
                  /\ Occurs(call.page[sign[1]], sign[2]))

\* a page with login in its URL and none of the five phrases anywhere is
\* blocked
C35_Witness ==
    /\ pc = "returned" /\ call.fn = "_is_authwall_or_checkpoint"
    /\ call.page = [url |-> "login", title |-> "", body |-> "", raises |-> "none"]
    /\ ret = TRUE

\* C36: whatever the arguments, the effective limit of each policy is at
\* least 1: the default (10 for stale postings, 3 for empty pages) for 0 or
\* a missing argument, 1 for a negative one, the argument otherwise; the
\* effective day threshold is the argument when positive, else the age
\* filter in days, which is 7 when that is 0 or missing; so a streak of no
\* event does not reach either limit
C36_EffectiveLimitsAtLeastOne ==
    (pc = "returned" /\ call.fn = "__init__") =>
        LET limit == call.stop_old_posted_consecutive_limit
            empty == call.stop_empty_pages_consecutive_limit
            days == call.stop_old_posted_days_threshold
            age == call.date_posted_days
        IN /\ ret.stop_old_posted_consecutive_limit =
                 (IF limit = 0 THEN 10 ELSE IF limit < 0 THEN 1 ELSE limit)
           /\ ret.stop_empty_pages_consecutive_limit =
                 (IF empty = 0 THEN 3 ELSE IF empty < 0 THEN 1 ELSE empty)
           /\ ret.stop_old_posted_days_threshold =
                 (IF days > 0 THEN days ELSE IF age = 0 THEN 7 ELSE age)
           /\ ret.stop_old_posted_consecutive_limit >= 1
           /\ ret.stop_empty_pages_consecutive_limit >= 1
           /\ ~(0 >= ret.stop_old_posted_consecutive_limit)
           /\ ~(0 >= ret.stop_empty_pages_consecutive_limit)

\* a negative stale limit, no empty limit, no threshold and no age filter
C36_Witness ==
    /\ pc = "returned" /\ call.fn = "__init__"
    /\ call.stop_old_posted_consecutive_limit < 0
    /\ call.stop_empty_pages_consecutive_limit = 0
    /\ call.stop_old_posted_days_threshold = 0
    /\ call.date_posted_days = 0
    /\ ret.stop_old_posted_consecutive_limit = 1
    /\ ret.stop_empty_pages_consecutive_limit = 3
    /\ ret.stop_old_posted_days_threshold = 7

\* C37: normalising the result of a normalisation gives the same result;
\* a result that is not empty ends with one slash, not two, and holds no
\* ? or #, and no / after the slug but the last one
C37_NormalizeIdempotent ==
    (pc = "again" /\ call.fn = "_normalize_company_url") =>
        /\ ret.again = ret.url
        /\ ret.url # <<>> =>
              /\ Len(ret.url) >= 2
              /\ ret.url[Len(ret.url)] = "/"
              /\ ret.url[Len(ret.url) - 1] # "/"
              /\ \A i \in 1..(Len(ret.url) - 1) : ret.url[i] \notin {"/", "?", "#"}

\* a link inside a redirect, with a sub-page and a query, normalised twice
C37_Witness ==
    /\ pc = "again" /\ call.fn = "_normalize_company_url"
    /\ call.prefix # <<>> /\ Head(call.prefix) # Space
    /\ call.suffix = << "/", "life", "?", "x=1" >>
    /\ ret.url # <<>>
    /\ ret.again = ret.url

\* the rows written in this run stand at the end of the file, in the order
\* of the writes, each the row its task returned for its input row
RowsOfThisRun ==
    /\ Len(written) <= Len(out_file)
    /\ \A k \in 1..Len(written) :
          /\ out_file[Len(out_file) - Len(written) + k] = futures[written[k].task].result
          /\ futures[written[k].task].result.jobID = to_process[written[k].task].jobID

\* C38: in every interleaving at most one call of writerow is under way and
\* it is main's; every row of the run was written by main, no submitted job
\* has two rows, and when the batch has finished every submitted job has its
\* row, whatever its worker met; and the batch does finish
C38_OneRowPerJobOneWriter ==
    /\ [](/\ Cardinality(writing) <= 1
          /\ \A wr \in writing : wr.thread = "main"
          /\ \A k \in 1..Len(written) : written[k].thread = "main"
          /\ \A k, m \in 1..Len(written) : k # m => written[k].task # written[m].task
          /\ RowsOfThisRun
          /\ pc = "finished" =>
                /\ Len(futures) = Len(to_process)
                /\ {written[k].task : k \in 1..Len(written)} = 1..Len(to_process))
    /\ <>(pc = "finished")

\* two jobs, the second finished and written first; one worker met an
\* exception, the call of the model failed for the other
C38_Witness ==
    /\ pc = "finished"
    /\ Len(written) = 2
    /\ written[1].task = 2
    /\ futures[1].result.qualify_reason = "Worker exception"
    /\ futures[2].result.qualify_reason = "LLM error: request failed"

\* C39: a client is used by the thread that made it and by no other thread,
\* no thread makes two clients, and a thread that calls the model does so
\* with the client it made
C39_ClientPerThread ==
    /\ \A c \in 1..Len(clients) : clients[c].used_by \subseteq {clients[c].made_by}
    /\ \A c, d \in 1..Len(clients) : c # d => clients[c].made_by # clients[d].made_by
    /\ \A w \in DOMAIN workers :
          workers[w].pc = "chat" =>
              /\ thread_local[w] \in 1..Len(clients)
              /\ clients[thread_local[w]].made_by = w

\* three jobs on two threads: one thread has served two of them, each
\* thread with its own client
C39_Witness ==
    /\ pc = "finished"
    /\ Len(to_process) = 3
    /\ Len(clients) = 2
    /\ \A c \in 1..Len(clients) : clients[c].used_by = {clients[c].made_by}

\* the identifiers of the rows of a file
BatchRowIds(rows) == {rows[i].jobID : i \in 1..Len(rows)}

\* the non-empty identifiers of the input are all different
UniqueInput ==
    \A i, j \in 1..Len(in_rows) :
        (i # j /\ in_rows[i].jobID # "") => in_rows[i].jobID # in_rows[j].jobID

\* C40: no row submitted has an identifier that a row of the output file
\* had when the run began; a run that follows a finished run on the same
\* files submits nothing and writes nothing, whatever the rows record; with
\* unique input identifiers no two rows of the output share an identifier
C40_ResumeSkipsProcessed ==
    /\ \A i \in 1..Len(futures) :
          to_process[i].jobID \notin
              BatchRowIds(SubSeq(out_file, 1, Len(out_file) - Len(written)))
    /\ run >= 2 => (futures = <<>> /\ written = <<>> /\ writing = {})
    /\ UniqueInput =>
          \A i, j \in 1..Len(out_file) : i # j => out_file[i].jobID # out_file[j].jobID

\* the second run has finished on a file whose rows record an LLM error and
\* a missing description, and has written nothing
C40_Witness ==
    /\ run = 2
    /\ pc = "finished"
    /\ written = <<>>
    /\ \E i, j \in 1..Len(out_file) :
          /\ out_file[i].qualify_reason = "LLM error: request failed"
          /\ out_file[j].qualify_reason = "No job_description"

====
